---------------------------- MODULE Spec2Model ----------------------------
(***************************************************************************)
(* A model of the Utilities library's combinatorial iteration core:        *)
(*   - the combinatorics free functions (binomial and multinomial          *)
(*     coefficient, n_permutations, the factorial-number-system            *)
(*     conversions),                                                       *)
(*   - UnsignedSubtract,                                                   *)
(*   - PermutationItr and the Permutations container,                      *)
(*   - CombinationItr and the Combinations containers,                     *)
(*   - RangeItr and the Range containers,                                  *)
(*   - the Zip functors and the tuple container they drive.                *)
(* Sequences are TLA+ sequences of integers (vector<bool> uses 0 for false *)
(* and 1 for true).  std::size_t is an unsigned integer of WordBits bits   *)
(* and difference_type (long) a two's complement integer of the same       *)
(* width; the model scales the width down from 64.                         *)
(***************************************************************************)
EXTENDS Integers, Sequences, FiniteSets

\* ------------------------------------------------------------------ bounds
\* Longest input sequence of the permutation functions and iterators.
MaxLen == 4
\* Elements are drawn from 1..MaxElem.
MaxElem == 2
\* Width in bits of the model's size_t and long.
WordBits == 7
\* A lone iterator is stepped from MaxExtra below its first position to
\* MaxExtra past a full cycle.
MaxExtra == 1
\* advance is called with n in -MaxAdvance .. MaxAdvance.
MaxAdvance == 2
\* Of two iterators, "a" is stepped at most PairSteps up or down.
PairSteps == 1
\* Longest sequence the second iterator is constructed from on its own.
MaxOtherLen == 1
\* Longest source sequence of a combination container.
MaxSetLen == 3
\* Combinations take k in 0 .. MaxK.
MaxK == 3
\* binomial_coefficient is called with n and k in 0 .. MaxN.
MaxN == 10
\* multinomial_coefficient is called with at most MaxKs counts, each in
\* 0 .. MaxCount.
MaxKs == 3
MaxCount == 3
\* n_permutations is also called on 1, 2, ..., n for n up to MaxDistinct.
MaxDistinct == 6
\* Range is called with start and stop in -MaxRange .. MaxRange and a step
\* in -MaxStep .. MaxStep.
MaxRange == 3
MaxStep == 2
\* Zip takes 1 .. MaxZip containers of 0 .. MaxZipLen elements each.
MaxZip == 3
MaxZipLen == 3
\* CartesianProduct takes 1 .. MaxCart containers of 0 .. MaxCartLen
\* elements each.
MaxCart == 3
MaxCartLen == 3
\* A MathSet is made from a list of at most MaxListLen elements out of
\* 1 .. MaxMathElem.
MaxListLen == 3
MaxMathElem == 3
\* The clock of the Timer runs from 0 to MaxTime.
MaxTime == 4

Elems == 1 .. MaxElem
Seqs == UNION {[1 .. n -> Elems] : n \in 0 .. MaxLen}

\* --------------------------------------------------- fixed-width integers
\* Number of values of size_t.
Modulus == 2 ^ WordBits
\* Least value of long.
MinSigned == -(2 ^ (WordBits - 1))
\* static_cast<long>(u) for a size_t u: reinterpretation in two's complement.
ToSigned(u) == IF u >= 2 ^ (WordBits - 1) THEN u - Modulus ELSE u
\* Conversion of a long to size_t (as in offset_ + dx_ + n and offset_ += n).
ToUnsigned(x) == x % Modulus

\* -------------------------------------------------- sequence primitives
\* The sequence without its i-th element (1-based).
Remove(seq, i) == SubSeq(seq, 1, i - 1) \o SubSeq(seq, i + 1, Len(seq))
\* std::count over a whole sequence.
Count(seq, x) == Cardinality({i \in 1 .. Len(seq) : seq[i] = x})
\* Sum of the entries of a sequence.
RECURSIVE SumSeq(_)
SumSeq(seq) == IF seq = <<>> THEN 0 ELSE Head(seq) + SumSeq(Tail(seq))
\* Insertion of x into an ascending sequence, after its equals.
RECURSIVE InsertSorted(_, _)
InsertSorted(seq, x) ==
    IF seq = <<>> THEN <<x>>
    ELSE IF x < Head(seq) THEN <<x>> \o seq
    ELSE <<Head(seq)>> \o InsertSorted(Tail(seq), x)
\* A sort that leaves the sequence as it is.
SortAsIs(seq) == seq
\* std::sort of a sequence of integers: the ascending arrangement.
RECURSIVE Sort(_)
Sort(seq) == IF seq = <<>> THEN <<>> ELSE InsertSorted(Sort(Tail(seq)), Head(seq))
\* The reversed sequence (std::reverse).
Reverse(seq) == [i \in 1 .. Len(seq) |-> seq[Len(seq) + 1 - i]]

\* ------------------------------------------------------ combinatorics.cpp
\* BCImpl<size_t>::eval(n, k).  threw: the exception thrown, "" when the
\* call returns val.
RECURSIVE BCEval(_, _)
BCEval(n, k) ==
    IF k = 0 THEN [threw |-> "", val |-> 1]
    ELSE IF k > n THEN [threw |-> "", val |-> 0]
    ELSE IF n < WordBits
    THEN LET x == BCEval(n - 1, k - 1)
             y == BCEval(n - 1, k)
         IN  IF x.threw # "" THEN x
             ELSE IF y.threw # "" THEN y
             ELSE [threw |-> "", val |-> (x.val + y.val) % Modulus]
    ELSE [threw |-> "overflow_error", val |-> 0]
\* A binomial coefficient that gives 0 for choosing nothing out of nothing.
BinomialZeroOfZero(n, k) ==
    IF n = 0 /\ k = 0 THEN [threw |-> "", val |-> 0] ELSE BCEval(n, k)
\* A binomial coefficient by Pascal's rule for every n, never throwing.
RECURSIVE PascalWrapped(_, _)
PascalWrapped(n, k) ==
    IF k = 0 THEN 1
    ELSE IF k > n THEN 0
    ELSE (PascalWrapped(n - 1, k - 1) + PascalWrapped(n - 1, k)) % Modulus
BinomialNeverThrows(n, k) == [threw |-> "", val |-> PascalWrapped(n, k)]
\* binomial_coefficient<size_t>(n, k).
binomial_coefficient(n, k) == BCEval(n, k)

\* An inner loop that divides by i before it multiplies by numerator.
RECURSIVE MCInnerDivideFirst(_, _, _, _)
MCInnerDivideFirst(k, i, result, numerator) ==
    IF i > k THEN <<result, numerator>>
    ELSE MCInnerDivideFirst(k, i + 1, ((result \div i) * numerator) % Modulus,
                            (numerator - 1) % Modulus)
\* MCImpl<size_t>::eval, inner loop: for(i = 1; i <= k; ++i).
RECURSIVE MCInner(_, _, _, _)
MCInner(k, i, result, numerator) ==
    IF i > k THEN <<result, numerator>>
    ELSE LET r1 == (result * numerator) % Modulus
             r2 == (r1 - (r1 % i)) \div i
         IN  MCInner(k, i + 1, r2, (numerator - 1) % Modulus)
\* MCImpl<size_t>::eval, outer loop: for(auto k : ks).
RECURSIVE MCOuter(_, _, _)
MCOuter(ks, result, numerator) ==
    IF ks = <<>> THEN result
    ELSE LET rn == MCInner(Head(ks), 1, result, numerator)
         IN  MCOuter(Tail(ks), rn[1], rn[2])
\* multinomial_coefficient<size_t>(ks).
multinomial_coefficient(ks) == MCOuter(ks, 1, SumSeq(ks) % Modulus)

\* ------------------------------------------------------ combinatorics.hpp
\* n_permutations: the while loop collecting the run lengths of sorted temp.
RECURSIVE RunCounts(_)
RunCounts(temp) ==
    IF temp = <<>> THEN <<>>
    ELSE LET n_ei == Count(temp, Head(temp))
         IN  <<n_ei>> \o RunCounts(SubSeq(temp, n_ei + 1, Len(temp)))
\* A count that takes every element for a different one.
NPermsAllDistinct(seq) == multinomial_coefficient([i \in 1 .. Len(seq) |-> 1])
\* n_permutations(seq).
n_permutations(seq) == multinomial_coefficient(RunCounts(Sort(seq)))

\* The index of the last element of original equal to ei, 0 if none.
LastIndex(original, ei) ==
    IF \E i \in 1 .. Len(original) : original[i] = ei
    THEN CHOOSE i \in 1 .. Len(original) :
             /\ original[i] = ei
             /\ \A j \in i + 1 .. Len(original) : original[j] # ei
    ELSE 0
\* Index (1-based) of the first element of original equal to ei, 0 if none:
\* the for loop of permutation_to_fns.
FirstIndex(original, ei) ==
    IF \E i \in 1 .. Len(original) : original[i] = ei
    THEN CHOOSE i \in 1 .. Len(original) :
             /\ original[i] = ei
             /\ \A j \in 1 .. i - 1 : original[j] # ei
    ELSE 0
\* permutation_to_fns(perm, original).
RECURSIVE permutation_to_fns(_, _)
permutation_to_fns(perm, original) ==
    IF Len(perm) = 0 THEN <<>>
    ELSE IF Len(perm) = 1 THEN <<0>>
    ELSE LET idx == FirstIndex(original, Head(perm))
             digit == IF idx = 0 THEN 0 ELSE idx - 1
             new_orig == IF idx = 0 THEN original ELSE Remove(original, idx)
         IN  <<digit>> \o permutation_to_fns(Tail(perm), new_orig)

\* fns_to_permutation: the loop over the digits, with temp and rv.
RECURSIVE FnsToPermLoop(_, _, _)
FnsToPermLoop(fns, temp, rv) ==
    IF fns = <<>> THEN rv
    ELSE LET x == Head(fns)
         IN  IF x < Len(temp)
             THEN FnsToPermLoop(Tail(fns), Remove(temp, x + 1), Append(rv, temp[x + 1]))
             ELSE FnsToPermLoop(Tail(fns), temp, rv)
\* fns_to_permutation(fns, original).
fns_to_permutation(fns, original) == FnsToPermLoop(fns, original, <<>>)

\* The place value pushed in front by fns_place_values.
PlaceValue(perm) == n_permutations(perm) \div Len(perm)
\* fns_place_values(perm).
RECURSIVE fns_place_values(_)
fns_place_values(perm) ==
    IF Len(perm) = 0 THEN <<>>
    ELSE IF Len(perm) = 1 THEN <<1>>
    ELSE IF Len(perm) = 2 THEN <<1, 1>>
    ELSE <<PlaceValue(perm)>> \o fns_place_values(Tail(perm))

\* decimal_to_fns, inner while loop over the candidates; pos is curr_guess
\* (1-based).  found = FALSE: the loop ran off the end without a break.
RECURSIVE DtfInner(_, _, _, _, _)
DtfInner(new_orig, pos, total_perms, digit_i, D) ==
    IF pos > Len(new_orig)
    THEN [found |-> FALSE, digit |-> digit_i, new_orig |-> new_orig, D |-> D]
    ELSE LET ei == new_orig[pos]
             temp == Remove(new_orig, pos)
             P_ei == n_permutations(temp)
             total == (total_perms + P_ei) % Modulus
         IN  IF D < total
             THEN [found |-> TRUE, digit |-> digit_i, new_orig |-> temp,
                   D |-> (D - ((total - P_ei) % Modulus)) % Modulus]
             ELSE LET n_ei == Count(temp, ei)
                  IN  DtfInner(new_orig, pos + 1 + n_ei, total,
                               digit_i + 1 + n_ei, D)
\* decimal_to_fns, outer while loop.  When the inner loop finds no digit the
\* next pass starts from the same new_orig, D and rv: the loop never ends,
\* which is returns = FALSE.
RECURSIVE DtfOuter(_, _, _)
DtfOuter(new_orig, D, rv) ==
    IF new_orig = <<>> THEN [returns |-> TRUE, fns |-> rv]
    ELSE LET in == DtfInner(new_orig, 1, 0, 0, D)
         IN  IF in.found
             THEN DtfOuter(in.new_orig, in.D, Append(rv, in.digit))
             ELSE [returns |-> FALSE, fns |-> rv]
\* decimal_to_fns(D, orig).
decimal_to_fns(D, orig) == DtfOuter(Sort(orig), D, <<>>)

\* std::inner_product(fns, values, 0).
RECURSIVE InnerProduct(_, _)
InnerProduct(fns, values) ==
    IF fns = <<>> THEN 0
    ELSE (Head(fns) * Head(values) + InnerProduct(Tail(fns), Tail(values))) % Modulus
\* permutation_to_decimal(perm, original).
permutation_to_decimal(perm, original) ==
    InnerProduct(permutation_to_fns(perm, original), fns_place_values(perm))
\* decimal_to_permutation(n, original); returns = FALSE when decimal_to_fns
\* does not return.
decimal_to_permutation(n, original) ==
    LET f == decimal_to_fns(n, original)
    IN  [returns |-> f.returns,
         perm |-> IF f.returns THEN fns_to_permutation(f.fns, original) ELSE <<>>]

\* ------------------------------------------- reference notions (not code)
\* The distinct arrangements of the elements of s.
RECURSIVE PermsOf(_)
PermsOf(s) ==
    IF s = <<>> THEN {<<>>}
    ELSE UNION {{<<s[i]>> \o q : q \in PermsOf(Remove(s, i))} : i \in 1 .. Len(s)}
\* p comes strictly before q in lexicographic order (equal lengths).
LexLess(p, q) ==
    \E i \in 1 .. Len(p) :
        /\ p[i] < q[i]
        /\ \A j \in 1 .. i - 1 : p[j] = q[j]
\* The 0-based lexicographic rank of p among the distinct arrangements of p.
LexRank(p) == Cardinality({q \in PermsOf(p) : LexLess(q, p)})
\* The number of distinct arrangements of s.
NPerms(s) == Cardinality(PermsOf(s))
\* The arrangement of s of lexicographic rank r.
NthPerm(s, r) == CHOOSE q \in PermsOf(s) : LexRank(q) = r
IsSorted(s) == \A i \in 1 .. Len(s) - 1 : s[i] <= s[i + 1]


\* ------------------------------------------------------------ the state
VARIABLES
    seq_in,     \* FNS functions: the original sequence handed to both
    rank_in,    \* FNS functions: the rank a run starts from (-1: none)
    perm_in,    \* FNS functions: the permutation a run starts from
    perm_out,   \* FNS functions: result of decimal_to_permutation
    rank_out,   \* FNS functions: result of permutation_to_decimal
    fpc,        \* FNS functions: which calls have returned
    itr,        \* the two PermutationItr objects "a" and "b"
    hist,       \* how each iterator was made and moved since
    last,       \* the last member function called and what it returned
    pc,         \* "run", or "hung" inside a call that never returns
    cont,       \* the RangeContainer of CombinationItr made by the caller
    crepeat,    \* the template argument repeat of its iterators
    citr,       \* the CombinationItr the caller moves
    chist,      \* how that iterator was moved since it left begin()
    cargs,      \* the source sequence and k the caller chose
    cub,        \* "", or which vector was indexed out of bounds
    fn_call,    \* counting functions: the function called and its arguments
    fn_ret,     \* counting functions: what the call gave back
    rargs,      \* Range: the arguments the caller chose
    rng,        \* Range: the RangeImpl container made from them
    ritr,       \* Range: the RangeItr of the caller's for loop
    ryield,     \* Range: the values the loop body has seen, in order
    rpc,        \* Range: where the for loop stands
    zconts,     \* Zip: the containers the caller zipped
    zip,        \* Zip: the container made from them
    zitr,       \* Zip: the iterator of the caller's for loop
    zyield,     \* Zip: the tuples the loop body has seen, in order
    zpc,        \* Zip: where the for loop stands
    pconts,     \* CartesianProduct: the containers the caller combined
    prod,       \* CartesianProduct: the container made from them
    pitr,       \* CartesianProduct: the iterator of the caller's for loop
    pyield,     \* CartesianProduct: the tuples the loop body has seen
    ppc,        \* CartesianProduct: where the for loop stands
    mset,       \* MathSet: the elements_ of the two sets "x" and "y"
    mlast,      \* MathSet: the last member function called and its result
    tnow,       \* Timer: what clock_type::now() returns
    m_started_, \* Timer: the time point the timer was last started at
    m_times_,   \* Timer: the recorded timings, one entry per key
    tlast,      \* Timer: the last member function called
    ocont,      \* operators: the Range whose iterators are compared
    oitr,       \* operators: the two RangeItr objects "a" and "b"
    olast       \* operators: the last operator applied and its results

fnsVars == <<seq_in, rank_in, perm_in, perm_out, rank_out, fpc>>
permVars == <<itr, hist, last, pc>>
combVars == <<cont, crepeat, citr, chist, cargs, cub>>
countVars == <<fn_call, fn_ret>>
rangeVars == <<rargs, rng, ritr, ryield, rpc>>
zipVars == <<zconts, zip, zitr, zyield, zpc>>
cartVars == <<pconts, prod, pitr, pyield, ppc>>
setVars == <<mset, mlast>>
timerVars == <<tnow, m_started_, m_times_, tlast>>
opsVars == <<ocont, oitr, olast>>
vars == <<fnsVars, permVars, combVars, countVars, rangeVars, zipVars, cartVars, setVars, timerVars, opsVars>>
\* What the calls of one component leave alone: the other components.
exceptFns == <<permVars, combVars, countVars, rangeVars, zipVars, cartVars, setVars, timerVars, opsVars>>
exceptPerm == <<fnsVars, combVars, countVars, rangeVars, zipVars, cartVars, setVars, timerVars, opsVars>>
exceptComb == <<fnsVars, permVars, countVars, rangeVars, zipVars, cartVars, setVars, timerVars, opsVars>>
exceptCount == <<fnsVars, permVars, combVars, rangeVars, zipVars, cartVars, setVars, timerVars, opsVars>>
exceptRange == <<fnsVars, permVars, combVars, countVars, zipVars, cartVars, setVars, timerVars, opsVars>>
exceptZip == <<fnsVars, permVars, combVars, countVars, rangeVars, cartVars, setVars, timerVars, opsVars>>
exceptCart == <<fnsVars, permVars, combVars, countVars, rangeVars, zipVars, setVars, timerVars, opsVars>>
exceptSet == <<fnsVars, permVars, combVars, countVars, rangeVars, zipVars, cartVars, timerVars, opsVars>>
exceptTimer == <<fnsVars, permVars, combVars, countVars, rangeVars, zipVars, cartVars, setVars, opsVars>>
exceptOps == <<fnsVars, permVars, combVars, countVars, rangeVars, zipVars, cartVars, setVars, timerVars>>

\* ------------------------------------------------- combinatorics, as calls
FnsInit ==
    /\ seq_in \in Seqs
    /\ \/ /\ fpc = "rank"
          /\ rank_in \in 0 .. n_permutations(seq_in) - 1
          /\ perm_in = <<>>
       \/ /\ fpc = "perm"
          /\ rank_in = -1
          /\ perm_in \in PermsOf(seq_in)
    /\ perm_out = <<>>
    /\ rank_out = -1

FnsIdle ==
    /\ seq_in = <<>>
    /\ rank_in = -1
    /\ perm_in = <<>>
    /\ perm_out = <<>>
    /\ rank_out = -1
    /\ fpc = "idle"

\* A call decimal_to_permutation(n, seq_in), on the given rank or on the
\* rank permutation_to_decimal returned.
DecimalToPermutation ==
    /\ fpc \in {"rank", "p2d"}
    /\ LET n == IF fpc = "rank" THEN rank_in ELSE rank_out
           res == decimal_to_permutation(n, seq_in)
       IN  IF res.returns
           THEN /\ perm_out' = res.perm
                /\ fpc' = IF fpc = "rank" THEN "d2p" ELSE "p2d2p"
           ELSE /\ perm_out' = perm_out
                /\ fpc' = "hung"
    /\ UNCHANGED <<seq_in, rank_in, perm_in, rank_out, exceptFns>>

\* A call permutation_to_decimal(p, seq_in), on the given permutation or on
\* the permutation decimal_to_permutation returned.
PermutationToDecimal ==
    /\ fpc \in {"perm", "d2p"}
    /\ LET p == IF fpc = "perm" THEN perm_in ELSE perm_out
       IN  rank_out' = permutation_to_decimal(p, seq_in)
    /\ fpc' = IF fpc = "perm" THEN "p2d" ELSE "d2p2d"
    /\ UNCHANGED <<seq_in, rank_in, perm_in, perm_out, exceptFns>>

\* ------------------------------------------------------- permutations.hpp
\* PermutationItr() = default.
DefaultItr ==
    [orig_set_ |-> <<>>, sorted_orig_ |-> <<>>, set_ |-> <<>>,
     offset_ |-> 0, dx_ |-> 0]
\* PermutationItr(input_set, offset).
PermutationItr(input_set, offset) ==
    [orig_set_ |-> input_set,
     sorted_orig_ |-> Sort(input_set),
     set_ |-> input_set,
     offset_ |-> offset,
     dx_ |-> permutation_to_decimal(input_set, Sort(input_set))]

SetMax(S) == CHOOSE x \in S : \A y \in S : y <= x
\* A successor that stays at the greatest arrangement.
NextPermutationNoWrap(seq) ==
    LET n == Len(seq)
        I == {i \in 1 .. n - 1 : seq[i] < seq[i + 1]}
    IN  IF I = {} THEN seq
        ELSE LET i == SetMax(I)
                 j == SetMax({k \in i + 1 .. n : seq[i] < seq[k]})
                 sw == [seq EXCEPT ![i] = seq[j], ![j] = seq[i]]
             IN  SubSeq(sw, 1, i) \o Reverse(SubSeq(sw, i + 1, n))
\* std::next_permutation: the lexicographic successor, the least arrangement
\* after the greatest.
next_permutation(seq) ==
    LET n == Len(seq)
        I == {i \in 1 .. n - 1 : seq[i] < seq[i + 1]}
    IN  IF I = {} THEN Reverse(seq)
        ELSE LET i == SetMax(I)
                 j == SetMax({k \in i + 1 .. n : seq[i] < seq[k]})
                 sw == [seq EXCEPT ![i] = seq[j], ![j] = seq[i]]
             IN  SubSeq(sw, 1, i) \o Reverse(SubSeq(sw, i + 1, n))
\* std::prev_permutation: the lexicographic predecessor, the greatest
\* arrangement before the least.
prev_permutation(seq) ==
    LET n == Len(seq)
        I == {i \in 1 .. n - 1 : seq[i] > seq[i + 1]}
    IN  IF I = {} THEN Reverse(seq)
        ELSE LET i == SetMax(I)
                 j == SetMax({k \in i + 1 .. n : seq[i] > seq[k]})
                 sw == [seq EXCEPT ![i] = seq[j], ![j] = seq[i]]
             IN  SubSeq(sw, 1, i) \o Reverse(SubSeq(sw, i + 1, n))

\* PermutationItr::dereference.
dereference(it) == it.set_
\* PermutationItr::increment.
increment(it) ==
    [it EXCEPT !.set_ = next_permutation(@), !.offset_ = (@ + 1) % Modulus]
\* A decrement that leaves the offset alone.
DecrementKeepsOffset(it) == [it EXCEPT !.set_ = prev_permutation(@)]
\* PermutationItr::decrement.
decrement(it) ==
    [it EXCEPT !.set_ = prev_permutation(@), !.offset_ = (@ - 1) % Modulus]
\* An advance that keeps the new rank in dx_ and leaves the offset alone.
AdvanceMovesDx(it, n) ==
    LET res == decimal_to_permutation(ToUnsigned(it.offset_ + it.dx_ + n),
                                      it.sorted_orig_)
    IN  IF res.returns
        THEN [returns |-> TRUE,
              it |-> [it EXCEPT !.set_ = res.perm,
                                !.dx_ = ToUnsigned(it.offset_ + @ + n)]]
        ELSE [returns |-> FALSE, it |-> it]
\* PermutationItr::advance(n): returns = FALSE when decimal_to_permutation
\* never returns, and then nothing was assigned.
advance(it, n) ==
    LET res == decimal_to_permutation(ToUnsigned(it.offset_ + it.dx_ + n),
                                      it.sorted_orig_)
    IN  IF res.returns
        THEN [returns |-> TRUE,
              it |-> [it EXCEPT !.set_ = res.perm,
                                !.offset_ = ToUnsigned(@ + n)]]
        ELSE [returns |-> FALSE, it |-> it]
\* A comparison that leaves the offset out.
AreEqualNoOffset(lhs, rhs) ==
    <<lhs.orig_set_, lhs.set_>> = <<rhs.orig_set_, rhs.set_>>
\* PermutationItr::are_equal.
are_equal(lhs, rhs) ==
    <<lhs.orig_set_, lhs.set_, lhs.offset_>> =
        <<rhs.orig_set_, rhs.set_, rhs.offset_>>

\* --------------------------------------------------------- integer_utils.hpp
\* A subtraction that returns the magnitude of the difference.
UnsignedSubtractNoSign(lhs, rhs) ==
    IF lhs > rhs THEN ToSigned(lhs - rhs) ELSE ToSigned(rhs - lhs)
\* A subtraction that puts the minus sign on the wrong branch.
UnsignedSubtractFlipped(lhs, rhs) ==
    IF lhs > rhs THEN -1 * ToSigned(lhs - rhs) ELSE ToSigned(rhs - lhs)
\* The one unsigned subtraction UnsignedSubtract evaluates: <<minuend,
\* subtrahend>>.
UnsignedOperands(lhs, rhs) == IF lhs > rhs THEN <<lhs, rhs>> ELSE <<rhs, lhs>>
\* UnsignedSubtract<long, size_t>(lhs, rhs), as the value the arithmetic
\* denotes; it lies outside long exactly when -1 * static_cast<long>(rhs - lhs)
\* overflows.
UnsignedSubtract(lhs, rhs) ==
    IF lhs > rhs THEN ToSigned(lhs - rhs) ELSE -1 * ToSigned(rhs - lhs)
InLong(x) == x >= MinSigned /\ x < -MinSigned
\* The value a long holds after an operation whose exact result is x, in a
\* build where signed arithmetic wraps.
WrapLong(x) == ToSigned(x % Modulus)

\* PermutationItr::distance_to(rhs).  threw: the exception thrown, "" when
\* the call returns; overflow: a signed operation overflowed on the way
\* (undefined behaviour), and val is then what a wrapping build returns.
distance_to(it, rhs) ==
    LET ddx == UnsignedSubtract(rhs.dx_, it.dx_)
        doff == UnsignedSubtract(rhs.offset_, it.offset_)
        sum == WrapLong(ddx) + WrapLong(doff)
    IN  [threw |-> "",
         overflow |-> ~(InLong(ddx) /\ InLong(doff) /\ InLong(sum)),
         val |-> WrapLong(sum)]

\* Permutations(container): the RangeContainer's start_, end_ and size_.
Permutations(container) ==
    LET nperms == n_permutations(container)
    IN  [start_ |-> PermutationItr(container, 0),
         end_ |-> PermutationItr(container, nperms),
         size_ |-> nperms]


\* ------------------------------------------------ PermutationItr, as calls
NoRes == [threw |-> "", overflow |-> FALSE, val |-> 0]
NoLast ==
    [op |-> "none", lhs |-> "a", n |-> 0, before |-> DefaultItr,
     res |-> NoRes, eq |-> FALSE]
Fresh(offset) == [ctor |-> offset, net |-> 0, onlyInc |-> TRUE]

\* An iterator made by the default constructor was given no offset.
Defaulted == [ctor |-> -1, net |-> 0, onlyInc |-> TRUE]

PermIdle ==
    /\ itr = [i \in {"a", "b"} |-> DefaultItr]
    /\ hist = [i \in {"a", "b"} |-> Defaulted]
    /\ last = NoLast
    /\ pc = "idle"

\* "a" is the begin or the end iterator of Permutations(s); "b" is
\* default-constructed.
PermInit(ends) ==
    /\ \E s \in Seqs :
         \E e \in ends :
           LET it == Permutations(s)[e]
           IN  /\ itr = [a |-> it, b |-> DefaultItr]
               /\ hist = [a |-> Fresh(it.offset_), b |-> Defaulted]
    /\ last = NoLast
    /\ pc = "run"

\* ++i, while i has moved fewer than hi steps up.
Increment(i, hi) ==
    /\ pc = "run"
    /\ hist[i].net < hi
    /\ itr' = [itr EXCEPT ![i] = increment(@)]
    /\ hist' = [hist EXCEPT ![i].net = @ + 1]
    /\ last' = [NoLast EXCEPT !.op = "increment", !.lhs = i]
    /\ UNCHANGED <<pc, exceptPerm>>

\* --i, while i has moved fewer than -lo steps down.
Decrement(i, lo) ==
    /\ pc = "run"
    /\ hist[i].net > lo
    /\ itr' = [itr EXCEPT ![i] = decrement(@)]
    /\ hist' = [hist EXCEPT ![i].net = @ - 1, ![i].onlyInc = FALSE]
    /\ last' = [NoLast EXCEPT !.op = "decrement", !.lhs = i]
    /\ UNCHANGED <<pc, exceptPerm>>

\* i.advance(n).  When decimal_to_fns never returns the program stays inside
\* the call.
Advance(i, n, lo, hi) ==
    /\ pc = "run"
    /\ hist[i].net + n >= lo
    /\ hist[i].net + n <= hi
    /\ \E res \in {advance(itr[i], n)} :
           /\ itr' = [itr EXCEPT ![i] = res.it]
           /\ pc' = IF res.returns THEN "run" ELSE "hung"
           /\ hist' = IF res.returns
                      THEN [hist EXCEPT ![i].net = @ + n, ![i].onlyInc = FALSE]
                      ELSE hist
    /\ last' = [NoLast EXCEPT !.op = "advance", !.lhs = i, !.n = n,
                              !.before = itr[i]]
    /\ UNCHANGED <<exceptPerm>>

\* b = a (copy assignment), once.
CopyAssign ==
    /\ pc = "run"
    /\ hist["b"] = Defaulted
    /\ itr' = [itr EXCEPT !["b"] = itr["a"]]
    /\ hist' = [hist EXCEPT !["b"] = hist["a"]]
    /\ last' = NoLast
    /\ UNCHANGED <<pc, exceptPerm>>

\* b = the begin or end iterator of Permutations(*a), once.
ConstructFromDeref ==
    /\ pc = "run"
    /\ hist["b"] = Defaulted
    /\ \E e \in {"start_", "end_"} :
         LET it == Permutations(dereference(itr["a"]))[e]
         IN  /\ itr' = [itr EXCEPT !["b"] = it]
             /\ hist' = [hist EXCEPT !["b"] = Fresh(it.offset_)]
    /\ last' = NoLast
    /\ UNCHANGED <<pc, exceptPerm>>

\* b = the begin or end iterator of Permutations(t), for a sequence t of the
\* caller's, once.
ConstructOther ==
    /\ pc = "run"
    /\ hist["b"] = Defaulted
    /\ \E t \in {s \in Seqs : Len(s) <= MaxOtherLen} :
         \E e \in {"start_", "end_"} :
           LET it == Permutations(t)[e]
           IN  /\ itr' = [itr EXCEPT !["b"] = it]
               /\ hist' = [hist EXCEPT !["b"] = Fresh(it.offset_)]
    /\ last' = NoLast
    /\ UNCHANGED <<pc, exceptPerm>>

\* i.distance_to(j).
DistanceTo(i, j) ==
    /\ pc = "run"
    /\ last' = [NoLast EXCEPT !.op = "distance_to", !.lhs = i,
                              !.res = distance_to(itr[i], itr[j])]
    /\ UNCHANGED <<itr, hist, pc, exceptPerm>>

\* i == j.
AreEqual(i, j) ==
    /\ pc = "run"
    /\ last' = [NoLast EXCEPT !.op = "are_equal", !.lhs = i,
                              !.eq = are_equal(itr[i], itr[j])]
    /\ UNCHANGED <<itr, hist, pc, exceptPerm>>

Other(i) == IF i = "a" THEN "b" ELSE "a"

\* ------------------------------------------------------- combinations.hpp
\* The mask the constructor permutes: size entries, the first k false (0),
\* the others true (1).
Mask(size, k) == [i \in 1 .. size |-> IF i <= k THEN 0 ELSE 1]
\* Size of the mask: n without repetition, else eff_size.
MaskSize(n, k, repeat) ==
    IF ~repeat THEN n
    ELSE IF n # 0 \/ k # 0 THEN (n + k - 1) % Modulus ELSE 0

\* A decoding that reads the source at the number of bars in either mode.
SourceIndexBars(repeat, i, bar_count) == bar_count + 1
\* A decoding that never counts a bar.
SourceIndexNoBars(repeat, i, bar_count) == IF ~repeat THEN i ELSE 1
\* update_comb: the 1-based index into set_ read for the false entry at
\* position i of the mask (set_[!repeat ? i : bar_count]).
SourceIndex(repeat, i, bar_count) == IF ~repeat THEN i ELSE bar_count + 1
\* update_comb: the for loop over the mask p, from position i on.
RECURSIVE UpdateCombLoop(_, _, _, _, _, _, _)
UpdateCombLoop(p, set, comb, repeat, i, counter, bar_count) ==
    IF i > Len(p) THEN comb
    ELSE LET star == p[i] = 0
             comb2 == IF star
                      THEN [comb EXCEPT ![counter + 1] =
                                set[SourceIndex(repeat, i, bar_count)]]
                      ELSE comb
             counter2 == IF star THEN counter + 1 ELSE counter
             bar_count2 == IF star THEN bar_count ELSE bar_count + 1
         IN  IF counter2 = Len(comb) THEN comb2
             ELSE UpdateCombLoop(p, set, comb2, repeat, i + 1, counter2,
                                 bar_count2)
\* update_comb: whether every comb_[counter] and set_[...] the for loop
\* touches, from position i on, lies inside its vector.
RECURSIVE UpdateCombInBounds(_, _, _, _, _, _, _)
UpdateCombInBounds(p, set, comb, repeat, i, counter, bar_count) ==
    IF i > Len(p) THEN TRUE
    ELSE LET star == p[i] = 0
             counter2 == IF star THEN counter + 1 ELSE counter
             bar_count2 == IF star THEN bar_count ELSE bar_count + 1
         IN  /\ star => /\ counter + 1 \in 1 .. Len(comb)
                        /\ SourceIndex(repeat, i, bar_count) \in 1 .. Len(set)
             /\ \/ counter2 = Len(comb)
                \/ UpdateCombInBounds(p, set, comb, repeat, i + 1, counter2,
                                      bar_count2)
\* CombinationItr::update_comb.
update_comb(it, repeat) ==
    [it EXCEPT !.comb_ = UpdateCombLoop(dereference(it.current_perm_),
                                        it.set_, it.comb_, repeat, 1, 0, 0)]

\* CombinationItr() = default.
DefaultCombItr == [set_ |-> <<>>, comb_ |-> <<>>, current_perm_ |-> DefaultItr]
\* The constructor writes temp[i] for every i < k: k must not exceed the
\* size of the mask.
CtorInBounds(n, k, repeat) == k <= MaskSize(n, k, repeat)
\* CombinationItr<., repeat>(input_set, k, at_end), for k within the mask.
CombinationItr(input_set, k, at_end, repeat) ==
    LET temp == Mask(MaskSize(Len(input_set), k, repeat), k)
        perms == Permutations(temp)
    IN  update_comb([set_ |-> input_set,
                     comb_ |-> [i \in 1 .. k |-> 0],
                     current_perm_ |-> IF at_end THEN perms.end_
                                       ELSE perms.start_],
                    repeat)
\* CombinationItr::dereference.
comb_dereference(it) == it.comb_
\* CombinationItr::increment.
comb_increment(it, repeat) ==
    update_comb([it EXCEPT !.current_perm_ = increment(@)], repeat)
\* CombinationItr::decrement.
comb_decrement(it, repeat) ==
    update_comb([it EXCEPT !.current_perm_ = decrement(@)], repeat)
\* A comparison of the source sequences alone.
CombAreEqualSetOnly(lhs, rhs) == lhs.set_ = rhs.set_
\* CombinationItr::are_equal.
comb_are_equal(lhs, rhs) ==
    /\ lhs.set_ = rhs.set_
    /\ are_equal(lhs.current_perm_, rhs.current_perm_)

\* The RangeContainer a factory returns, or the exception it throws.
RangeOf(container, k, repeat, bc) ==
    IF bc.threw # ""
    THEN [threw |-> bc.threw, start_ |-> DefaultCombItr,
          end_ |-> DefaultCombItr, size_ |-> 0]
    ELSE [threw |-> "",
          start_ |-> CombinationItr(container, k, FALSE, repeat),
          end_ |-> CombinationItr(container, k, TRUE, repeat),
          size_ |-> bc.val]
\* CombinationsWithRepeat(container, k).
CombinationsWithRepeat(container, k) ==
    RangeOf(container, k, TRUE,
            binomial_coefficient((Len(container) + k - 1) % Modulus, k))
\* Combinations(container, k).
Combinations(container, k) ==
    RangeOf(container, k, FALSE, binomial_coefficient(Len(container), k))

\* ------------------------------------------------ CombinationItr, as calls
NoRange ==
    [threw |-> "", start_ |-> DefaultCombItr, end_ |-> DefaultCombItr,
     size_ |-> 0]
CombIdle ==
    /\ cont = NoRange
    /\ crepeat = FALSE
    /\ citr = DefaultCombItr
    /\ chist = [net |-> 0, onlyInc |-> TRUE]
    /\ cargs = [set |-> <<>>, k |-> 0]
    /\ cub = ""

\* Which vector the constructor CombinationItr(set, k, .) indexes out of
\* bounds: the mask in temp[i] = false, else the source in its update_comb;
\* "" when none.
CtorOutOfBounds(set, k, repeat) ==
    LET temp == Mask(MaskSize(Len(set), k, repeat), k)
    IN  IF ~CtorInBounds(Len(set), k, repeat) THEN "mask"
        ELSE IF ~UpdateCombInBounds(temp, set, [i \in 1 .. k |-> 0], repeat,
                                    1, 0, 0)
        THEN "source"
        ELSE ""

\* The caller makes Combinations(set, k) or CombinationsWithRepeat(set, k)
\* and takes its begin().  When a constructor indexes out of bounds the
\* behaviour is undefined: no container is modelled and nothing follows.
CombInit ==
    /\ crepeat \in BOOLEAN
    /\ cargs \in [set : {s \in Seqs : Len(s) <= MaxSetLen}, k : 0 .. MaxK]
    /\ cub = CtorOutOfBounds(cargs.set, cargs.k, crepeat)
    /\ cont = IF cub # "" THEN NoRange
              ELSE IF crepeat THEN CombinationsWithRepeat(cargs.set, cargs.k)
              ELSE Combinations(cargs.set, cargs.k)
    /\ cont.threw = ""
    /\ citr = cont.start_
    /\ chist = [net |-> 0, onlyInc |-> TRUE]

\* Whether update_comb, run on it with its mask permuted to p, stays inside
\* comb_ and set_.
MoveInBounds(it, p, repeat) ==
    UpdateCombInBounds(p, it.set_, it.comb_, repeat, 1, 0, 0)

\* ++citr, up to MaxExtra past the size of the container.
CombIncrement ==
    /\ cont.threw = ""
    /\ cub = ""
    /\ chist.net < cont.size_ + MaxExtra
    /\ IF MoveInBounds(citr, dereference(increment(citr.current_perm_)), crepeat)
       THEN /\ citr' = comb_increment(citr, crepeat)
            /\ chist' = [chist EXCEPT !.net = @ + 1]
            /\ cub' = ""
       ELSE /\ cub' = "source"
            /\ UNCHANGED <<citr, chist>>
    /\ UNCHANGED <<cont, crepeat, cargs, exceptComb>>

\* --citr, down to MaxExtra before begin().
CombDecrement ==
    /\ cont.threw = ""
    /\ cub = ""
    /\ chist.net > -MaxExtra
    /\ IF MoveInBounds(citr, dereference(decrement(citr.current_perm_)), crepeat)
       THEN /\ citr' = comb_decrement(citr, crepeat)
            /\ chist' = [chist EXCEPT !.net = @ - 1, !.onlyInc = FALSE]
            /\ cub' = ""
       ELSE /\ cub' = "source"
            /\ UNCHANGED <<citr, chist>>
    /\ UNCHANGED <<cont, crepeat, cargs, exceptComb>>

\* -------------------------------------------------------------- range.hpp
\* RangeItr<int> and RangeImpl<int>.  The values stay far inside int, so
\* they are plain integers; size_type is size_t.
\* C++ integer division: the quotient is cut toward zero.
TruncDiv(a, b) ==
    IF (a >= 0) = (b > 0) THEN (IF a >= 0 THEN a ELSE -a) \div (IF b > 0 THEN b ELSE -b)
    ELSE -((IF a >= 0 THEN a ELSE -a) \div (IF b > 0 THEN b ELSE -b))
\* RangeItr(start, stop, increment).
RangeItr(start, stop, step) ==
    [start_ |-> start, stop_ |-> stop, increment_ |-> step, value_ |-> start]
range_dereference(it) == it.value_
\* An advance that adds the size of adv whatever its sign.
RangeAdvanceForward(it, adv) ==
    [it EXCEPT !.value_ = @ + (IF adv > 0 THEN adv ELSE -1 * adv)]
\* adv > 0 ? value_ += adv : value_ -= -1 * adv
range_advance(it, adv) ==
    IF adv > 0 THEN [it EXCEPT !.value_ = @ + adv]
    ELSE [it EXCEPT !.value_ = @ - (-1 * adv)]
range_increment(it) == range_advance(it, it.increment_)
range_are_equal(it, rhs) == it.value_ = rhs.value_
\* The third argument RangeImpl hands to RangeContainer, as a size_type.
RangeSize(start, stop, step) ==
    IF stop > start THEN ToUnsigned(TruncDiv(stop - start, step))
    ELSE ToUnsigned(TruncDiv(start - stop, -1 * step))
\* RangeImpl(start, stop, increment).
RangeImpl(start, stop, step) ==
    [start_ |-> RangeItr(start, stop, step),
     end_ |-> RangeItr(stop, stop, step),
     size_ |-> RangeSize(start, stop, step)]
\* Range(stop) and Range(start, stop, increment).
RangeTo(stop) == RangeImpl(0, stop, 1)
Range(start, stop, step) == RangeImpl(start, stop, step)

\* RangeItr::decrement.
range_decrement(it) == range_advance(it, -1 * it.increment_)
\* RangeItr::distance_to(rhs).
range_distance_to(it, rhs) ==
    LET is_positive == rhs.value_ > it.value_
        abs_diff == IF is_positive THEN rhs.value_ - it.value_
                    ELSE it.value_ - rhs.value_
    IN  IF is_positive THEN abs_diff ELSE -1 * abs_diff

\* ------------------------------------------------------ iterator_types.hpp
\* RandomAccessIteratorBase<RangeItr<int>, ...>: the operators the base
\* derives from advance and distance_to.
\* operator<(rhs).
operator_less(it, rhs) == range_distance_to(it, rhs) > 0
\* operator+=(n).
operator_plus_assign(it, n) == range_advance(it, n)
\* operator+(n): a copy, moved by += n.
operator_plus(it, n) == operator_plus_assign(it, n)
\* operator-(rhs), the difference of two iterators.
operator_minus(it, rhs) == range_distance_to(it, rhs)

\* ----------------------------------------------------- Range, as a for loop
NoRangeArgs == [form |-> "", start |-> 0, stop |-> 0, step |-> 1]
RangeIdle ==
    /\ rargs = NoRangeArgs
    /\ rng = RangeImpl(0, 0, 1)
    /\ ritr = RangeItr(0, 0, 1)
    /\ ryield = <<>>
    /\ rpc = "idle"
\* for(auto x : Range(stop)) and for(auto x : Range(start, stop, step)),
\* about to compare begin() with end() for the first time.
RangeInit ==
    /\ rargs \in
         {[NoRangeArgs EXCEPT !.form = "stop", !.stop = stop] :
              stop \in -MaxRange .. MaxRange}
         \cup {[form |-> "start, stop, step", start |-> a[1], stop |-> a[2],
                step |-> a[3]] :
                   a \in (-MaxRange .. MaxRange) \X (-MaxRange .. MaxRange)
                           \X ((-MaxStep .. MaxStep) \ {0})}
    /\ rng = IF rargs.form = "stop" THEN RangeTo(rargs.stop)
             ELSE Range(rargs.start, rargs.stop, rargs.step)
    /\ ritr = rng.start_
    /\ ryield = <<>>
    /\ rpc = "test"

\* The loop's test itr != end, and with it *itr handed to the body.  A loop
\* that runs away is followed for 2 * MaxRange + 1 values.
RangeDereference ==
    /\ rpc = "test"
    /\ ~range_are_equal(ritr, rng.end_)
    /\ Len(ryield) <= 2 * MaxRange
    /\ ryield' = Append(ryield, range_dereference(ritr))
    /\ rpc' = "body"
    /\ UNCHANGED <<rargs, rng, ritr, exceptRange>>

\* ++itr at the end of the loop body.
RangeIncrement ==
    /\ rpc = "body"
    /\ ritr' = range_increment(ritr)
    /\ rpc' = "test"
    /\ UNCHANGED <<rargs, rng, ryield, exceptRange>>

\* ---------------------------------------------------------------- zip.hpp
\* A component iterator is a position in its container, 1 .. Len + 1, the
\* last being the container's end().
\* ZipSizeFunctor::initial_value: numeric_limits<size_t>::max().
initial_value == Modulus - 1
\* ZipSizeFunctor::run(curr_min, container).
ZipSizeFunctor(curr_min, container) ==
    IF Len(container) < curr_min THEN Len(container) ELSE curr_min
\* ZipIncrementFunctor::Comparer over the two tuples.
Comparer(value, end) == [i \in 1 .. Len(value) |-> value[i] = end[i]]
\* A reduction that is true only when every element is true.
AllTrue(at_end) == \A i \in 1 .. Len(at_end) : at_end[i]
\* ZipIncrementFunctor::AnyTrue folded over at_end, starting from false.
AnyTrue(at_end) == \E i \in 1 .. Len(at_end) : at_end[i]
\* ZipIncrementFunctor::run(start, end, value): the new value.
ZipIncrementFunctor(start, end, value) ==
    LET stepped == [i \in 1 .. Len(value) |-> value[i] + 1]
        done == AnyTrue(Comparer(stepped, end))
    IN  IF done THEN end ELSE stepped

\* The tuple container that Zip returns and its iterator.
\* size(): the size functor folded over the containers.
RECURSIVE TupleSize(_, _)
TupleSize(containers, curr) ==
    IF containers = <<>> THEN curr
    ELSE TupleSize(Tail(containers), ZipSizeFunctor(curr, Head(containers)))
BeginTuple(containers) == [i \in 1 .. Len(containers) |-> 1]
EndTuple(containers) == [i \in 1 .. Len(containers) |-> Len(containers[i]) + 1]
\* Zip(containers...): begin() is end() when size() is 0.
Zip(containers) ==
    LET size == TupleSize(containers, initial_value)
    IN  [size_ |-> size,
         start_ |-> IF size = 0 THEN EndTuple(containers) ELSE BeginTuple(containers),
         end_ |-> EndTuple(containers)]
\* *itr: the tuple of what the component iterators point to.
zip_dereference(containers, value) ==
    [i \in 1 .. Len(value) |-> containers[i][value[i]]]
zip_are_equal(value, rhs) == value = rhs

\* ------------------------------------------------------- Zip, as a for loop
\* The i-th container of length n holds 10 i + 1, ..., 10 i + n.
ZipContainer(i, n) == [j \in 1 .. n |-> 10 * i + j]
ZipIdle ==
    /\ zconts = <<>>
    /\ zip = [size_ |-> 0, start_ |-> <<>>, end_ |-> <<>>]
    /\ zitr = <<>>
    /\ zyield = <<>>
    /\ zpc = "idle"
\* for(auto& x : Zip(containers...)), about to compare begin() with end().
ZipInit ==
    /\ zconts \in
         UNION {{[i \in 1 .. n |-> ZipContainer(i, lens[i])] :
                     lens \in [1 .. n -> 0 .. MaxZipLen]} : n \in 1 .. MaxZip}
    /\ zip = Zip(zconts)
    /\ zitr = zip.start_
    /\ zyield = <<>>
    /\ zpc = "test"

\* The loop's test itr != end, and with it *itr handed to the body.  A
\* component iterator at its end is not dereferenced.
ZipDereference ==
    /\ zpc = "test"
    /\ ~zip_are_equal(zitr, zip.end_)
    /\ \A i \in 1 .. Len(zitr) : zitr[i] <= Len(zconts[i])
    /\ zyield' = Append(zyield, zip_dereference(zconts, zitr))
    /\ zpc' = "body"
    /\ UNCHANGED <<zconts, zip, zitr, exceptZip>>

\* ++itr at the end of the loop body.
ZipIncrement ==
    /\ zpc = "body"
    /\ zitr' = ZipIncrementFunctor(zip.start_, zip.end_, zitr)
    /\ zpc' = "test"
    /\ UNCHANGED <<zconts, zip, zyield, exceptZip>>

\* -------------------------------------------------- cartesian_product.hpp
\* Component iterators are positions as for Zip; tuple index I of the code is
\* position I + 1 of the sequence.
\* CartSizeFunctor::run(curr_min, container), a product of size_t.
CartSizeFunctor(curr_min, container) == (curr_min * Len(container)) % Modulus
\* tuple_find_if(temp_value, AtEnd(end)): the first index I whose element is
\* at its end, the number of elements if there is none.
RECURSIVE FindAtEnd(_, _, _)
FindAtEnd(temp_value, end, I) ==
    IF I = Len(temp_value) THEN I
    ELSE IF temp_value[I + 1] = end[I + 1] THEN I
    ELSE FindAtEnd(temp_value, end, I + 1)
\* A Reseter that leaves every element where it is.
ReseterOff(start, turn_on, temp_value) == temp_value
\* Reseter(start, turn_on) over the tuple: every I >= turn_on is at start.
Reseter(start, turn_on, temp_value) ==
    [i \in 1 .. Len(temp_value) |->
         IF i - 1 >= turn_on THEN start[i] ELSE temp_value[i]]
\* Incrementer(turn_on) over the tuple: ++itr works on the element of value
\* itself, so value and temp_value are both the tuple returned here.
Incrementer(turn_on, value) == [value EXCEPT ![turn_on + 1] = @ + 1]
\* CartIncrementFunctor::run(start, end, value), the while loop from idx on:
\* the new value.
RECURSIVE CartWhile(_, _, _, _)
CartWhile(start, end, value, idx) ==
    IF idx = 0 THEN value
    ELSE LET temp_value == Incrementer(idx - 1, value)
             new_idx == FindAtEnd(temp_value, end, 0)
         IN  IF new_idx = idx THEN Reseter(start, idx, temp_value)
             ELSE CartWhile(start, end, temp_value, new_idx)
CartIncrementFunctor(start, end, value) ==
    CartWhile(start, end, value, Len(value))
\* size(): the size functor folded over the containers from initial_value 1.
RECURSIVE CartSize(_, _)
CartSize(containers, curr) ==
    IF containers = <<>> THEN curr
    ELSE CartSize(Tail(containers), CartSizeFunctor(curr, Head(containers)))
\* CartesianProduct(containers...): begin() is end() when size() is 0.
CartesianProduct(containers) ==
    LET size == CartSize(containers, 1)
    IN  [size_ |-> size,
         start_ |-> IF size = 0 THEN EndTuple(containers) ELSE BeginTuple(containers),
         end_ |-> EndTuple(containers)]

\* ------------------------------------------ CartesianProduct, as a for loop
CartIdle ==
    /\ pconts = <<>>
    /\ prod = [size_ |-> 0, start_ |-> <<>>, end_ |-> <<>>]
    /\ pitr = <<>>
    /\ pyield = <<>>
    /\ ppc = "idle"
\* for(auto x : CartesianProduct(containers...)), about to compare begin()
\* with end().
CartInit ==
    /\ pconts \in
         UNION {{[i \in 1 .. n |-> ZipContainer(i, lens[i])] :
                     lens \in [1 .. n -> 0 .. MaxCartLen]} : n \in 1 .. MaxCart}
    /\ prod = CartesianProduct(pconts)
    /\ pitr = prod.start_
    /\ pyield = <<>>
    /\ ppc = "test"

\* The loop's test itr != end, and with it *itr handed to the body.  A
\* component iterator at its end is not dereferenced.
CartDereference ==
    /\ ppc = "test"
    /\ ~zip_are_equal(pitr, prod.end_)
    /\ \A i \in 1 .. Len(pitr) : pitr[i] <= Len(pconts[i])
    /\ pyield' = Append(pyield, zip_dereference(pconts, pitr))
    /\ ppc' = "body"
    /\ UNCHANGED <<pconts, prod, pitr, exceptCart>>

\* ++itr at the end of the loop body.
CartIncrement ==
    /\ ppc = "body"
    /\ pitr' = CartIncrementFunctor(prod.start_, prod.end_, pitr)
    /\ ppc' = "test"
    /\ UNCHANGED <<pconts, prod, pyield, exceptCart>>

\* ------------------------------------------------------------ math_set.hpp
\* elements_ is a std::set<int>: its elements in ascending order, each once.
\* std::set::insert of one element.
SetInsert(elements, ei) ==
    IF \E i \in 1 .. Len(elements) : elements[i] = ei THEN elements
    ELSE InsertSorted(elements, ei)
\* MathSet(std::initializer_list il): elements_(il).
RECURSIVE MathSet(_)
MathSet(il) ==
    IF il = <<>> THEN <<>>
    ELSE SetInsert(MathSet(SubSeq(il, 1, Len(il) - 1)), il[Len(il)])
\* std::set_intersection of two sorted ranges, as the sequence written.
RECURSIVE set_intersection(_, _)
set_intersection(a, b) ==
    IF a = <<>> \/ b = <<>> THEN <<>>
    ELSE IF Head(a) < Head(b) THEN set_intersection(Tail(a), b)
    ELSE IF Head(b) < Head(a) THEN set_intersection(a, Tail(b))
    ELSE <<Head(a)>> \o set_intersection(Tail(a), Tail(b))
\* A difference that also drops what comes after the last element of b.
RECURSIVE SetDifferenceShort(_, _)
SetDifferenceShort(a, b) ==
    IF a = <<>> \/ b = <<>> THEN <<>>
    ELSE IF Head(a) < Head(b) THEN <<Head(a)>> \o SetDifferenceShort(Tail(a), b)
    ELSE IF Head(b) < Head(a) THEN SetDifferenceShort(a, Tail(b))
    ELSE SetDifferenceShort(Tail(a), Tail(b))
\* std::set_difference of two sorted ranges, as the sequence written.
RECURSIVE set_difference(_, _)
set_difference(a, b) ==
    IF a = <<>> THEN <<>>
    ELSE IF b = <<>> THEN a
    ELSE IF Head(a) < Head(b) THEN <<Head(a)>> \o set_difference(Tail(a), b)
    ELSE IF Head(b) < Head(a) THEN set_difference(a, Tail(b))
    ELSE set_difference(Tail(a), Tail(b))
\* MathSet::intersection_assign(rhs): the receiver's elements_ afterwards
\* (temp filled through the inserter, then swapped in).
intersection_assign(elements, rhs) == MathSet(set_intersection(elements, rhs))
\* MathSet::intersection(rhs): MathSet(*this).intersection_assign(rhs).
intersection(elements, rhs) == intersection_assign(elements, rhs)
\* MathSet::difference_assign(rhs) and MathSet::difference(rhs).
difference_assign(elements, rhs) == MathSet(set_difference(elements, rhs))
difference(elements, rhs) == difference_assign(elements, rhs)

\* ------------------------------------------------------ MathSet, as calls
SetNames == {"x", "y"}
NoSetCall == [op |-> "", lhs |-> "x", rhs |-> "x", result |-> <<>>,
              before |-> [n \in SetNames |-> <<>>]]
SetIdle == mset = [n \in SetNames |-> <<>>] /\ mlast = NoSetCall
\* Two sets made from initializer lists.
SetInit ==
    /\ mset \in [SetNames -> {MathSet(il) :
                     il \in UNION {[1 .. len -> 1 .. MaxMathElem] :
                                       len \in 0 .. MaxListLen}}]
    /\ mlast = NoSetCall

\* lhs.intersection(rhs) and lhs.difference(rhs): a new set is returned.
Intersection(lhs, rhs) ==
    /\ mlast' = [op |-> "intersection", lhs |-> lhs, rhs |-> rhs,
                 result |-> intersection(mset[lhs], mset[rhs]), before |-> mset]
    /\ UNCHANGED <<mset, exceptSet>>
Difference(lhs, rhs) ==
    /\ mlast' = [op |-> "difference", lhs |-> lhs, rhs |-> rhs,
                 result |-> difference(mset[lhs], mset[rhs]), before |-> mset]
    /\ UNCHANGED <<mset, exceptSet>>
\* lhs.intersection_assign(rhs) and lhs.difference_assign(rhs): the receiver
\* is changed and returned.
IntersectionAssign(lhs, rhs) ==
    LET after == intersection_assign(mset[lhs], mset[rhs])
    IN  /\ mset' = [mset EXCEPT ![lhs] = after]
        /\ mlast' = [op |-> "intersection_assign", lhs |-> lhs, rhs |-> rhs,
                     result |-> after, before |-> mset]
        /\ UNCHANGED exceptSet
DifferenceAssign(lhs, rhs) ==
    LET after == difference_assign(mset[lhs], mset[rhs])
    IN  /\ mset' = [mset EXCEPT ![lhs] = after]
        /\ mlast' = [op |-> "difference_assign", lhs |-> lhs, rhs |-> rhs,
                     result |-> after, before |-> mset]
        /\ UNCHANGED exceptSet

\* --------------------------------------------------------------- timer.hpp
\* Descriptions, and std::tolower applied to each letter of one.
Descs == {"a", "A", "b"}
ToLower(desc) == IF desc = "A" THEN "a" ELSE desc
\* CaseInsensitiveLess_ calls two keys equivalent when neither is less.
SameKey(s1, s2) == ToLower(s1) = ToLower(s2)
\* m_times_.emplace(desc, dt): std::map keeps the entry of an equivalent key.
emplace(times, desc, dt) ==
    IF \E e \in times : SameKey(e.key, desc) THEN times
    ELSE times \cup {[key |-> desc, dt |-> dt]}
\* Timer::at(desc): m_times_.at(desc); -1 stands for std::out_of_range.
at(times, desc) ==
    IF \E e \in times : SameKey(e.key, desc)
    THEN (CHOOSE e \in times : SameKey(e.key, desc)).dt
    ELSE -1

\* -------------------------------------------------------- Timer, as calls
NoTimerCall == [op |-> "", desc |-> "", started |-> 0, t2 |-> 0]
TimerIdle ==
    /\ tnow = 0
    /\ m_started_ = 0
    /\ m_times_ = {}
    /\ tlast = NoTimerCall
\* Timer(): started at the time of construction.
TimerInit ==
    /\ tnow \in 0 .. MaxTime
    /\ m_started_ = tnow
    /\ m_times_ = {}
    /\ tlast = [NoTimerCall EXCEPT !.op = "Timer", !.started = tnow, !.t2 = tnow]

\* Time passes between two calls.
TimerTick ==
    /\ tnow < MaxTime
    /\ tnow' = tnow + 1
    /\ UNCHANGED <<m_started_, m_times_, tlast, exceptTimer>>

\* Timer::record(desc): record_(desc, m_started_, now()), which emplaces the
\* timing and calls reset().
TimerRecord(desc) ==
    /\ m_times_' = emplace(m_times_, desc, tnow - m_started_)
    /\ m_started_' = tnow
    /\ tlast' = [op |-> "record", desc |-> desc, started |-> m_started_, t2 |-> tnow]
    /\ UNCHANGED <<tnow, exceptTimer>>

\* Timer::time_it(desc, fxn): fxn runs for d ticks between the two readings
\* of the clock.
TimerTimeIt(desc, d) ==
    /\ tnow + d <= MaxTime
    /\ tnow' = tnow + d
    /\ m_times_' = emplace(m_times_, desc, (tnow + d) - tnow)
    /\ m_started_' = tnow + d
    /\ tlast' = [op |-> "time_it", desc |-> desc, started |-> tnow, t2 |-> tnow + d]
    /\ UNCHANGED exceptTimer

\* Timer::reset().
TimerReset ==
    /\ m_started_' = tnow
    /\ tlast' = [op |-> "reset", desc |-> "", started |-> tnow, t2 |-> tnow]
    /\ UNCHANGED <<tnow, m_times_, exceptTimer>>

\* ------------------------------------- the iterator operators, as calls
NoOp == [op |-> "", lhs |-> "a", n |-> 0, lt |-> FALSE, diff |-> 0]
OpsIdle ==
    /\ ocont = RangeImpl(0, 0, 1)
    /\ oitr = [a |-> RangeItr(0, 0, 1), b |-> RangeItr(0, 0, 1)]
    /\ olast = NoOp
\* A Range and two iterators into it: a is begin(), b is begin() or end().
OpsInit ==
    /\ ocont \in {Range(a[1], a[2], a[3]) :
                    a \in {t \in (-MaxRange .. MaxRange) \X (-MaxRange .. MaxRange)
                                   \X ((-MaxStep .. MaxStep) \ {0}) :
                               (t[2] - t[1]) * t[3] >= 0}}
    /\ \E e \in {"start_", "end_"} : oitr = [a |-> ocont.start_, b |-> ocont[e]]
    /\ olast = NoOp
\* i += n, while the value stays within the bounds of the ranges.
OpsPlusAssign(i, n) ==
    /\ operator_plus_assign(oitr[i], n).value_ \in -MaxRange .. MaxRange
    /\ oitr' = [oitr EXCEPT ![i] = operator_plus_assign(@, n)]
    /\ olast' = [NoOp EXCEPT !.op = "+=", !.lhs = i, !.n = n]
    /\ UNCHANGED <<ocont, exceptOps>>
\* i < j, and j - i next to it.
OpsCompare(i, j) ==
    /\ olast' = [NoOp EXCEPT !.op = "<", !.lhs = i,
                             !.lt = operator_less(oitr[i], oitr[j]),
                             !.diff = operator_minus(oitr[j], oitr[i])]
    /\ UNCHANGED <<ocont, oitr, exceptOps>>
\* (i + n) - i.
OpsPlusMinus(i, n) ==
    /\ olast' = [NoOp EXCEPT !.op = "+-", !.lhs = i, !.n = n,
                             !.diff = operator_minus(operator_plus(oitr[i], n),
                                                     oitr[i])]
    /\ UNCHANGED <<ocont, oitr, exceptOps>>
\* end() - begin() of the container.
OpsLastFirst ==
    /\ olast' = [NoOp EXCEPT !.op = "last - first",
                             !.diff = operator_minus(ocont.end_, ocont.start_)]
    /\ UNCHANGED <<ocont, oitr, exceptOps>>

\* --------------------------------------- the counting functions, as calls
\* MCImpl<size_t>::eval, the two loops seen step by step: for every pass of
\* the inner loop the product result * numerator before it is cut to the
\* word, and the divisor i.
RECURSIVE MCTraceInner(_, _, _, _)
MCTraceInner(k, i, result, numerator) ==
    IF i > k THEN <<>>
    ELSE LET r1 == (result * numerator) % Modulus
             r2 == (r1 - (r1 % i)) \div i
         IN  <<[product |-> result * numerator, i |-> i]>>
             \o MCTraceInner(k, i + 1, r2, (numerator - 1) % Modulus)
RECURSIVE MCTraceOuter(_, _, _)
MCTraceOuter(ks, result, numerator) ==
    IF ks = <<>> THEN <<>>
    ELSE LET rn == MCInner(Head(ks), 1, result, numerator)
         IN  MCTraceInner(Head(ks), 1, result, numerator)
             \o MCTraceOuter(Tail(ks), rn[1], rn[2])
MCTrace(ks) == MCTraceOuter(ks, 1, SumSeq(ks) % Modulus)

\* The arguments a caller can choose.
BinomialArgs == [n : 0 .. MaxN, k : 0 .. MaxN]
MultinomialArgs == UNION {[1 .. len -> 0 .. MaxCount] : len \in 0 .. MaxKs}
Iota(n) == [i \in 1 .. n |-> i]
NPermutationsArgs == Seqs \cup {Iota(n) : n \in 0 .. MaxDistinct}

NoCall ==
    [fn |-> "", n |-> 0, k |-> 0, ks |-> <<>>, seq |-> <<>>, lhs |-> 0, rhs |-> 0]
NoRet == [done |-> FALSE, threw |-> "", val |-> 0, seq |-> <<>>]
CountIdle == fn_call = NoCall /\ fn_ret = NoRet
\* A caller about to call one of the functions.
CountInit ==
    /\ fn_call \in
         {[NoCall EXCEPT !.fn = "binomial_coefficient", !.n = a.n, !.k = a.k] :
              a \in BinomialArgs}
         \cup {[NoCall EXCEPT !.fn = "multinomial_coefficient", !.ks = ks] :
                   ks \in MultinomialArgs}
         \cup {[NoCall EXCEPT !.fn = "n_permutations", !.seq = seq] :
                   seq \in NPermutationsArgs}
         \cup {[NoCall EXCEPT !.fn = "UnsignedSubtract", !.lhs = a[1], !.rhs = a[2]] :
                   a \in (0 .. Modulus - 1) \X (0 .. Modulus - 1)}
    /\ fn_ret = NoRet

\* binomial_coefficient<size_t>(n, k): returns, or throws std::overflow_error.
CallBinomial ==
    /\ fn_call.fn = "binomial_coefficient"
    /\ ~fn_ret.done
    /\ LET r == binomial_coefficient(fn_call.n, fn_call.k)
       IN  fn_ret' = [NoRet EXCEPT !.done = TRUE, !.threw = r.threw, !.val = r.val]
    /\ UNCHANGED <<fn_call, exceptCount>>

\* multinomial_coefficient<size_t>(ks), declared noexcept: always returns.
CallMultinomial ==
    /\ fn_call.fn = "multinomial_coefficient"
    /\ ~fn_ret.done
    /\ fn_ret' = [NoRet EXCEPT !.done = TRUE,
                               !.val = multinomial_coefficient(fn_call.ks)]
    /\ UNCHANGED <<fn_call, exceptCount>>

\* n_permutations(seq): seq is taken by reference to const and the copy temp
\* is what gets sorted; fn_ret.seq is the caller's sequence after the call.
CallNPermutations ==
    /\ fn_call.fn = "n_permutations"
    /\ ~fn_ret.done
    /\ fn_ret' = [NoRet EXCEPT !.done = TRUE,
                               !.val = n_permutations(fn_call.seq),
                               !.seq = fn_call.seq]
    /\ UNCHANGED <<fn_call, exceptCount>>


\* UnsignedSubtract<long, size_t>(lhs, rhs), noexcept.  When the product
\* -1 * static_cast<long>(rhs - lhs) overflows long the behaviour is
\* undefined and any long may come back.
CallUnsignedSubtract ==
    /\ fn_call.fn = "UnsignedSubtract"
    /\ ~fn_ret.done
    /\ LET x == UnsignedSubtract(fn_call.lhs, fn_call.rhs)
       IN  \E val \in IF InLong(x) THEN {x} ELSE MinSigned .. -MinSigned - 1 :
               fn_ret' = [NoRet EXCEPT !.done = TRUE, !.val = val]
    /\ UNCHANGED <<fn_call, exceptCount>>

\* ------------------------------------------------------- specifications
\* The combinatorics functions called on every bounded input.
FnsNext == DecimalToPermutation \/ PermutationToDecimal
InitFNS == FnsInit /\ PermIdle /\ CombIdle /\ CountIdle /\ RangeIdle /\ ZipIdle /\ CartIdle /\ SetIdle /\ TimerIdle /\ OpsIdle
SpecFNS == InitFNS /\ [][FnsNext]_vars

\* One PermutationItr through its life.
StepIncrement == Increment("a", n_permutations(itr["a"].orig_set_) + MaxExtra)
StepDecrement == Decrement("a", -MaxExtra)
StepAdvance ==
    \E n \in -MaxAdvance .. MaxAdvance :
        Advance("a", n, -MaxExtra, n_permutations(itr["a"].orig_set_) + MaxExtra)
Next == StepIncrement \/ StepDecrement \/ StepAdvance
Init == FnsIdle /\ PermInit({"start_", "end_"}) /\ CombIdle /\ CountIdle /\ RangeIdle /\ ZipIdle /\ CartIdle /\ SetIdle /\ TimerIdle /\ OpsIdle
Spec == Init /\ [][Next]_vars

\* Two PermutationItr objects.
PairIncrement == Increment("a", PairSteps)
PairDecrement == Decrement("a", -PairSteps)
PairDistanceTo == \E i \in {"a", "b"} : DistanceTo(i, Other(i))
PairAreEqual == \E i \in {"a", "b"} : AreEqual(i, Other(i))
PairNext ==
    \/ PairIncrement
    \/ PairDecrement
    \/ CopyAssign
    \/ ConstructFromDeref
    \/ ConstructOther
    \/ PairDistanceTo
    \/ PairAreEqual
InitPair == FnsIdle /\ PermInit({"start_"}) /\ CombIdle /\ CountIdle /\ RangeIdle /\ ZipIdle /\ CartIdle /\ SetIdle /\ TimerIdle /\ OpsIdle
SpecPair == InitPair /\ [][PairNext]_vars

\* One CombinationItr of a Combinations or CombinationsWithRepeat container.
CombNext == CombIncrement \/ CombDecrement
InitComb == FnsIdle /\ PermIdle /\ CombInit /\ CountIdle /\ RangeIdle /\ ZipIdle /\ CartIdle /\ SetIdle /\ TimerIdle /\ OpsIdle
SpecComb == InitComb /\ [][CombNext]_vars

\* One call of a counting function.
CountNext ==
    \/ CallBinomial
    \/ CallMultinomial
    \/ CallNPermutations
    \/ CallUnsignedSubtract
InitCount == FnsIdle /\ PermIdle /\ CombIdle /\ CountInit /\ RangeIdle /\ ZipIdle /\ CartIdle /\ SetIdle /\ TimerIdle /\ OpsIdle
SpecCount == InitCount /\ [][CountNext]_vars

\* One for loop over a Range.
RangeNext == RangeDereference \/ RangeIncrement
InitRange == FnsIdle /\ PermIdle /\ CombIdle /\ CountIdle /\ RangeInit /\ ZipIdle /\ CartIdle /\ SetIdle /\ TimerIdle /\ OpsIdle
SpecRange == InitRange /\ [][RangeNext]_vars

\* One for loop over a Zip.
ZipNext == ZipDereference \/ ZipIncrement
InitZip ==
    FnsIdle /\ PermIdle /\ CombIdle /\ CountIdle /\ RangeIdle /\ ZipInit /\ CartIdle /\ SetIdle /\ TimerIdle /\ OpsIdle
SpecZip == InitZip /\ [][ZipNext]_vars

\* One for loop over a CartesianProduct.
CartNext == CartDereference \/ CartIncrement
InitCart ==
    FnsIdle /\ PermIdle /\ CombIdle /\ CountIdle /\ RangeIdle /\ ZipIdle /\ CartInit /\ SetIdle /\ TimerIdle /\ OpsIdle
SpecCart == InitCart /\ [][CartNext]_vars

\* Two MathSets and the calls made on them.
SetNext ==
    \/ \E lhs \in SetNames, rhs \in SetNames : Intersection(lhs, rhs)
    \/ \E lhs \in SetNames, rhs \in SetNames : Difference(lhs, rhs)
    \/ \E lhs \in SetNames, rhs \in SetNames : IntersectionAssign(lhs, rhs)
    \/ \E lhs \in SetNames, rhs \in SetNames : DifferenceAssign(lhs, rhs)
InitSet ==
    FnsIdle /\ PermIdle /\ CombIdle /\ CountIdle /\ RangeIdle /\ ZipIdle /\ CartIdle /\ SetInit /\ TimerIdle /\ OpsIdle
SpecSet == InitSet /\ [][SetNext]_vars

\* One Timer and the calls made on it while time passes.
TimerNext ==
    \/ TimerTick
    \/ \E desc \in Descs : TimerRecord(desc)
    \/ \E desc \in Descs, d \in 0 .. MaxTime : TimerTimeIt(desc, d)
    \/ TimerReset
InitTimer ==
    FnsIdle /\ PermIdle /\ CombIdle /\ CountIdle /\ RangeIdle /\ ZipIdle /\ CartIdle /\ SetIdle /\ TimerInit /\ OpsIdle
SpecTimer == InitTimer /\ [][TimerNext]_vars

\* Two iterators of a Range and the operators of the random-access base.
OpsNext ==
    \/ \E n \in -MaxStep .. MaxStep : OpsPlusAssign("a", n)
    \/ \E i \in {"a", "b"} : OpsCompare(i, Other(i))
    \/ \E n \in -MaxStep .. MaxStep : OpsPlusMinus("a", n)
    \/ OpsLastFirst
InitOps ==
    FnsIdle /\ PermIdle /\ CombIdle /\ CountIdle /\ RangeIdle /\ ZipIdle /\ CartIdle /\ SetIdle /\ TimerIdle /\ OpsInit
SpecOps == InitOps /\ [][OpsNext]_vars

\* --------------------------------------------- claims: the FNS functions
\* C1: for every sequence seq_in (any element order, repeats allowed) the
\* two conversions are inverse to each other: a rank in
\* [0, n_permutations) converted by decimal_to_permutation and back by
\* permutation_to_decimal is the same rank, a distinct permutation converted
\* by permutation_to_decimal and back by decimal_to_permutation is the same
\* permutation, and both calls return.
C1_RoundTrip ==
    /\ fpc # "hung"
    /\ fpc = "d2p2d" => rank_out = rank_in
    /\ fpc = "p2d2p" => perm_out = perm_in

\* C2: for an ascending seq_in and a rank r in [0, n_permutations),
\* decimal_to_permutation(r, seq_in) is the distinct permutation of seq_in
\* of lexicographic rank r, and n_permutations is the number of distinct
\* permutations, so ranks and permutations correspond one to one.
C2_RankIsLexIndex ==
    (fpc = "d2p" /\ IsSorted(seq_in)) =>
        /\ perm_out \in PermsOf(seq_in)
        /\ LexRank(perm_out) = rank_in
        /\ n_permutations(seq_in) = NPerms(seq_in)
\* decimal_to_permutation(3, {1,1,2,2}) has returned {2,1,1,2}.
C2_Witness ==
    /\ fpc = "d2p"
    /\ seq_in = <<1, 1, 2, 2>>
    /\ rank_in = 3
    /\ perm_out = <<2, 1, 1, 2>>

\* ------------------------------------------- claims: one PermutationItr
\* C3: an iterator constructed at offset 0 on a sequence s (sorted or not,
\* repeats allowed) and only incremented, k <= N = n_permutations(s) times,
\* shows the arrangement k places after s in the cyclic lexicographic order
\* of the N distinct arrangements of s, and it compares equal to the end
\* iterator PermutationItr(s, N) exactly when k = N.
C3_FullCycle ==
    LET a == itr["a"]
        h == hist["a"]
        s == a.orig_set_
        N == n_permutations(s)
    IN  (pc = "run" /\ h.ctor = 0 /\ h.onlyInc /\ h.net <= N) =>
            /\ N = NPerms(s)
            /\ dereference(a) = NthPerm(s, (LexRank(s) + h.net) % N)
            /\ are_equal(a, Permutations(s).end_) <=> h.net = N
\* The begin iterator over {2,1,2} after its third increment: back at
\* {2,1,2} and equal to the end iterator.
C3_Witness ==
    /\ pc = "run"
    /\ last.op = "increment"
    /\ hist["a"] = [ctor |-> 0, net |-> 3, onlyInc |-> TRUE]
    /\ itr["a"].orig_set_ = <<2, 1, 2>>
    /\ dereference(itr["a"]) = <<2, 1, 2>>
    /\ are_equal(itr["a"], Permutations(<<2, 1, 2>>).end_)

\* The iterator after n single steps: increments for n > 0, decrements for
\* n < 0.
RECURSIVE StepN(_, _)
StepN(it, n) ==
    IF n = 0 THEN it
    ELSE IF n > 0 THEN StepN(increment(it), n - 1)
    ELSE StepN(decrement(it), n + 1)
\* C4: a call advance(n), for any iterator and any n (0 included), returns
\* and leaves the iterator equal to the one that |n| single increments
\* (n >= 0) or decrements (n < 0) produce from the iterator before the call.
C4_AdvanceIsStepping ==
    last.op = "advance" =>
        /\ pc = "run"
        /\ are_equal(itr["a"], StepN(last.before, last.n))

\* ------------------------------------------- claims: two PermutationItr
\* The receiver and the argument of the last call.
LastLhs == itr[last.lhs]
LastRhs == itr[Other(last.lhs)]
\* The position of an iterator in the cycle of arrangements: the true
\* lexicographic rank of its starting arrangement plus its offset.
Position(it) == LexRank(it.orig_set_) + it.offset_

\* C5: for two iterators over the same multiset, x.distance_to(y) is
\* (lexrank(y.orig) + y.offset) - (lexrank(x.orig) + x.offset), as a long.
C5_DistanceIsSteps ==
    (last.op = "distance_to" /\ LastLhs.sorted_orig_ = LastRhs.sorted_orig_) =>
        /\ last.res.threw = ""
        /\ last.res.val = WrapLong(Position(LastRhs) - Position(LastLhs))

\* C6: x.distance_to(y) = -(y.distance_to(x)) for any two iterators, also
\* when an offset was decremented below 0, and neither call overflows long.
C6_DistanceAntisymmetric ==
    last.op = "distance_to" =>
        LET back == distance_to(LastRhs, LastLhs)
        IN  /\ ~last.res.overflow
            /\ ~back.overflow
            /\ last.res.val = -back.val
\* "a" was decremented from offset 0 to the wrapped offset, "b" is a copy
\* of it made before; a.distance_to(b) has returned 1.
C6_Witness ==
    /\ last.op = "distance_to"
    /\ last.lhs = "a"
    /\ hist["a"].ctor = 0
    /\ itr["a"].offset_ = Modulus - 1
    /\ itr["b"].offset_ = 0
    /\ Len(itr["a"].orig_set_) > 1
    /\ itr["b"].orig_set_ = itr["a"].orig_set_
    /\ last.res.val = 1
    /\ distance_to(itr["b"], itr["a"]).val = -1

\* C7: distance_to between iterators whose sorted reference sequences
\* differ throws std::invalid_argument.
C7_DistanceThrows ==
    (last.op = "distance_to" /\ LastLhs.sorted_orig_ # LastRhs.sorted_orig_) =>
        last.res.threw = "invalid_argument"

\* a is the untouched begin iterator and b the end iterator of Permutations
\* over the same non-empty sequence.
BeginAndEnd ==
    /\ hist["a"] = Fresh(0)
    /\ itr["b"].orig_set_ = itr["a"].orig_set_
    /\ Len(itr["a"].orig_set_) > 0
    /\ hist["b"] = Fresh(n_permutations(itr["a"].orig_set_))
\* C8: x == y exactly when orig_set_, set_ and offset_ of the two are
\* equal; the begin and the end iterator over a non-empty sequence show the
\* same permutation and are unequal; iterators started from different
\* arrangements are unequal.
C8_Equality ==
    last.op = "are_equal" =>
        /\ last.eq <=> /\ LastLhs.orig_set_ = LastRhs.orig_set_
                       /\ LastLhs.set_ = LastRhs.set_
                       /\ LastLhs.offset_ = LastRhs.offset_
        /\ BeginAndEnd =>
               /\ dereference(LastLhs) = dereference(LastRhs)
               /\ ~last.eq
        /\ LastLhs.orig_set_ # LastRhs.orig_set_ => ~last.eq
\* a started from {1,2} and b from {2,1}; they show the same permutation
\* and compare unequal.
C8_Witness ==
    /\ last.op = "are_equal"
    /\ itr["a"].orig_set_ = <<1, 2>>
    /\ itr["b"].orig_set_ = <<2, 1>>
    /\ dereference(itr["a"]) = dereference(itr["b"])
    /\ ~last.eq

\* ------------------------------------------------- claims: combinations
\* Reference notions (not code): the selections of k positions out of
\* 1 .. n as tuples in position order, without and with repetition.
IncreasingTuples(n, k) ==
    {t \in [1 .. k -> 1 .. n] : \A i \in 1 .. k - 1 : t[i] < t[i + 1]}
NonDecreasingTuples(n, k) ==
    {t \in [1 .. k -> 1 .. n] : \A i \in 1 .. k - 1 : t[i] <= t[i + 1]}
\* The tuple of T with j tuples of T before it in lexicographic order.
NthTuple(T, j) == CHOOSE t \in T : Cardinality({u \in T : LexLess(u, t)}) = j
\* The elements of set at the positions of t.
Select(set, t) == [i \in 1 .. Len(t) |-> set[t[i]]]
\* The positions of the false entries of a mask, in increasing order.
StarPositions(p) ==
    LET S == {i \in 1 .. Len(p) : p[i] = 0}
    IN  [j \in 1 .. Cardinality(S) |->
            CHOOSE i \in S : Cardinality({x \in S : x < i}) = j - 1]
\* For each false entry of a mask, one more than the number of true entries
\* before it.
BarsPassed(p) == [j \in DOMAIN StarPositions(p) |-> StarPositions(p)[j] - (j - 1)]
RECURSIVE Factorial(_)
Factorial(n) == IF n <= 0 THEN 1 ELSE n * Factorial(n - 1)
\* C(n, k) for 0 <= k <= n.
Choose(n, k) == Factorial(n) \div (Factorial(k) * Factorial(n - k))

\* C9: without repetition, for a source of length n and k in 0 .. n, the
\* container's size() is C(n, k); the iterator j < C(n, k) increments after
\* begin() shows the elements at the j-th selection of k distinct positions
\* in lexicographic order, listed in position order; and it equals end()
\* exactly after C(n, k) increments.
C9_Combinations ==
    LET set == citr.set_
        n == Len(set)
        k == Len(citr.comb_)
        T == IncreasingTuples(n, k)
        j == chist.net
    IN  (cont # NoRange /\ ~crepeat /\ chist.onlyInc /\ j <= cont.size_) =>
            /\ cont.size_ = Choose(n, k)
            /\ cont.size_ = Cardinality(T)
            /\ j < cont.size_ =>
                   /\ StarPositions(dereference(citr.current_perm_)) = NthTuple(T, j)
                   /\ comb_dereference(citr) = Select(set, NthTuple(T, j))
            /\ comb_are_equal(citr, cont.end_) <=> j = cont.size_
\* The iterator of Combinations({1,2,1}, 2) two increments after begin():
\* positions 2 and 3, the last of the three combinations.
C9_Witness ==
    /\ ~crepeat
    /\ citr.set_ = <<1, 2, 1>>
    /\ cont.size_ = 3
    /\ chist = [net |-> 2, onlyInc |-> TRUE]
    /\ comb_dereference(citr) = <<2, 1>>
    /\ comb_are_equal(comb_increment(citr, crepeat), cont.end_)

\* C10: with repetition, for a non-empty source of length n and k >= 0, the
\* container's size() is C(n + k - 1, k); the iterator j < size()
\* increments after begin() shows the elements at the j-th non-decreasing
\* k-tuple of positions in lexicographic order, the position of each false
\* entry of the mask being the number of true entries before it; and it
\* equals end() exactly after size() increments.
C10_CombinationsWithRepeat ==
    LET set == citr.set_
        n == Len(set)
        k == Len(citr.comb_)
        T == NonDecreasingTuples(n, k)
        j == chist.net
    IN  (cont # NoRange /\ crepeat /\ n >= 1 /\ chist.onlyInc
         /\ j <= cont.size_) =>
            /\ cont.size_ = Choose(n + k - 1, k)
            /\ cont.size_ = Cardinality(T)
            /\ j < cont.size_ =>
                   /\ BarsPassed(dereference(citr.current_perm_)) = NthTuple(T, j)
                   /\ comb_dereference(citr) = Select(set, NthTuple(T, j))
            /\ comb_are_equal(citr, cont.end_) <=> j = cont.size_
\* The iterator of CombinationsWithRepeat({1,2}, 2) two increments after
\* begin(): {2,2}, the last of the three results.
C10_Witness ==
    /\ crepeat
    /\ citr.set_ = <<1, 2>>
    /\ cont.size_ = 3
    /\ chist = [net |-> 2, onlyInc |-> TRUE]
    /\ comb_dereference(citr) = <<2, 2>>
    /\ comb_are_equal(comb_increment(citr, crepeat), cont.end_)

\* C11: choosing k = 0 from any source (the empty one included), with or
\* without repetition, indexes nothing out of bounds and gives a container
\* of size 1 whose begin() differs from end() and shows the empty
\* combination, and whose iterator equals end() after one increment.
C11_ChooseZero ==
    (cargs.k = 0 /\ chist.onlyInc) =>
        /\ cub = ""
        /\ cont.size_ = 1
        /\ ~comb_are_equal(cont.start_, cont.end_)
        /\ comb_dereference(cont.start_) = <<>>
        /\ chist.net = 0 => citr = cont.start_
        /\ chist.net = 1 => comb_are_equal(citr, cont.end_)
\* CombinationsWithRepeat({}, 0) one increment after begin(): at end().
C11_Witness ==
    /\ crepeat
    /\ cargs = [set |-> <<>>, k |-> 0]
    /\ chist = [net |-> 1, onlyInc |-> TRUE]
    /\ cont.size_ = 1
    /\ comb_are_equal(citr, cont.end_)

\* C12: with repetition, for every source (the empty one included) and
\* every k >= 0, constructing and moving the iterator indexes neither the
\* mask nor the source out of bounds.
C12_RepeatInBounds == crepeat => cub = ""

\* ----------------------------------------- claims: the counting functions
\* C(n, k) for every n and k, 0 when k > n.
TrueChoose(n, k) == IF k > n THEN 0 ELSE Choose(n, k)
\* C(n, k) by Pascal's rule on unbounded integers.
RECURSIVE Pascal(_, _)
Pascal(n, k) ==
    IF k = 0 THEN 1
    ELSE IF k > n THEN 0
    ELSE Pascal(n - 1, k - 1) + Pascal(n - 1, k)
\* (sum ks)! / prod(ks[i]!), as the number of ways to hand out the places
\* group by group.
RECURSIVE TrueMultinomial(_)
TrueMultinomial(ks) ==
    IF ks = <<>> THEN 1
    ELSE Pascal(SumSeq(ks), Head(ks)) * TrueMultinomial(Tail(ks))
Returned(fn) == fn_call.fn = fn /\ fn_ret.done

\* C13: for every n below the overflow bound (n < WordBits, the number of
\* bits of size_t) and every k, binomial_coefficient(n, k) returns C(n, k):
\* 1 when k = 0 (n = 0 included), 0 when k > n, and n!/(k!(n-k)!) otherwise.
C13_Binomial ==
    (Returned("binomial_coefficient") /\ fn_call.n < WordBits) =>
        /\ fn_ret.threw = ""
        /\ fn_call.k = 0 => fn_ret.val = 1
        /\ fn_call.k > fn_call.n => fn_ret.val = 0
        /\ (0 < fn_call.k /\ fn_call.k <= fn_call.n) =>
               fn_ret.val = Choose(fn_call.n, fn_call.k)
\* binomial_coefficient(6, 3) returned 20.
C13_Witness ==
    /\ Returned("binomial_coefficient")
    /\ fn_call.n = 6 /\ fn_call.k = 3
    /\ fn_ret.threw = "" /\ fn_ret.val = 20

\* C14: whenever C(n, k) cannot be held in size_t the call of
\* binomial_coefficient fails with overflow_error; whenever the call returns
\* a value, that value is C(n, k) and so is the value of every call it was
\* summed from (no sum of Pascal's rule wraps); the overflow outcome is an
\* exception, which the result 0 for k > n is not.
C14_BinomialOverflow ==
    Returned("binomial_coefficient") =>
        /\ TrueChoose(fn_call.n, fn_call.k) >= Modulus =>
               fn_ret.threw = "overflow_error"
        /\ fn_ret.threw = "" =>
               /\ fn_ret.val = TrueChoose(fn_call.n, fn_call.k)
               /\ \A n \in 0 .. fn_call.n, k \in 0 .. fn_call.k :
                      BCEval(n, k).threw = "" =>
                          BCEval(n, k).val = TrueChoose(n, k)
        /\ fn_call.k > fn_call.n => (fn_ret.threw = "" /\ fn_ret.val = 0)
\* C(10, 5) = 252 does not fit the word, and the call threw.
C14_Witness ==
    /\ Returned("binomial_coefficient")
    /\ fn_call.n = 10 /\ fn_call.k = 5
    /\ TrueChoose(fn_call.n, fn_call.k) >= Modulus
    /\ fn_ret.threw = "overflow_error"

\* Every product result * numerator of the loop fits size_t.
MCFits(ks) ==
    \A j \in 1 .. Len(MCTrace(ks)) : MCTrace(ks)[j].product < Modulus
\* C15: for every list ks whose intermediate products fit size_t,
\* multinomial_coefficient(ks) is (sum ks)!/prod(ks[i]!), 1 for the empty
\* list, and every division of the loop is exact: result % i = 0 when result
\* is divided by i.
C15_Multinomial ==
    (Returned("multinomial_coefficient") /\ MCFits(fn_call.ks)) =>
        /\ fn_ret.threw = ""
        /\ fn_ret.val = TrueMultinomial(fn_call.ks)
        /\ fn_call.ks = <<>> => fn_ret.val = 1
        /\ \A j \in 1 .. Len(MCTrace(fn_call.ks)) :
               LET step == MCTrace(fn_call.ks)[j]
               IN  (step.product % Modulus) % step.i = 0
\* multinomial_coefficient({2, 2, 1}) returned 30.
C15_Witness ==
    /\ Returned("multinomial_coefficient")
    /\ fn_call.ks = <<2, 2, 1>>
    /\ MCFits(fn_call.ks)
    /\ fn_ret.val = 30

\* The count the call was asked for, on unbounded integers.
TrueCount ==
    IF fn_call.fn = "multinomial_coefficient" THEN TrueMultinomial(fn_call.ks)
    ELSE NPerms(fn_call.seq)
\* C16: when the multinomial coefficient or the number of distinct
\* permutations cannot be held in size_t, multinomial_coefficient and
\* n_permutations fail with an overflow error instead of returning a value.
C16_NoSilentWrap ==
    ((Returned("multinomial_coefficient") \/ Returned("n_permutations"))
         /\ TrueCount >= Modulus) => fn_ret.threw # ""

\* C17: for every sequence, in whatever order its elements come and with
\* repeats, whose number of distinct arrangements fits size_t,
\* n_permutations(seq) returns that number, 1 for the empty sequence, and
\* the caller's sequence is the same after the call.
C17_NPermutations ==
    (Returned("n_permutations") /\ NPerms(fn_call.seq) < Modulus) =>
        /\ fn_ret.threw = ""
        /\ fn_ret.val = NPerms(fn_call.seq)
        /\ fn_call.seq = <<>> => fn_ret.val = 1
        /\ fn_ret.seq = fn_call.seq
\* n_permutations({2, 1, 2, 1}) returned 6 and left the sequence unsorted.
C17_Witness ==
    /\ Returned("n_permutations")
    /\ fn_call.seq = <<2, 1, 2, 1>>
    /\ fn_ret.val = 6
    /\ fn_ret.seq = <<2, 1, 2, 1>>

\* ------------------------------------------------------- claims: Range
\* step points from start toward stop.
PointsToStop == (rargs.stop - rargs.start) * rargs.step > 0
\* stop - start is an exact multiple of step.
Divisible == (rargs.stop - rargs.start) % (IF rargs.step > 0 THEN rargs.step ELSE -rargs.step) = 0
\* The for loop has compared itr equal to end().
LoopOver == rpc = "test" /\ range_are_equal(ritr, rng.end_)
\* start, start + step, ..., up to n terms.
Progression(n) == [i \in 1 .. n |-> rargs.start + (i - 1) * rargs.step]

\* C18: for start, stop and step # 0 with step pointing from start toward
\* stop and stop - start an exact multiple of step, the loop from begin() to
\* end() sees start, start + step, ..., stop - step in this order and never
\* stop, as many values as size() says; Range(stop) is Range(0, stop, 1);
\* and when start = stop the range is empty: begin() = end() and size() = 0.
C18_RangeValues ==
    /\ rpc # "idle" /\ rargs.form = "stop" =>
           rng = Range(0, rargs.stop, 1)
    /\ (rpc # "idle" /\ PointsToStop /\ Divisible) =>
           /\ Len(ryield) <= rng.size_
           /\ ryield = Progression(Len(ryield))
           /\ \A i \in 1 .. Len(ryield) : ryield[i] # rargs.stop
           /\ LoopOver =>
                  /\ Len(ryield) = rng.size_
                  /\ ryield # <<>>
                  /\ ryield[Len(ryield)] = rargs.stop - rargs.step
    /\ (rpc # "idle" /\ rargs.start = rargs.stop) =>
           /\ range_are_equal(rng.start_, rng.end_)
           /\ rng.size_ = 0
           /\ ryield = <<>>
\* The loop over Range(3, -3, -2) is over and has seen 3, 1, -1.
C18_Witness ==
    /\ rargs = [form |-> "start, stop, step", start |-> 3, stop |-> -3, step |-> -2]
    /\ LoopOver
    /\ ryield = <<3, 1, -1>>
    /\ rng.size_ = 3

\* The number of terms start + i * step, i >= 0, that lie strictly before
\* stop: ceil((stop - start) / step).
CeilTerms ==
    LET d == IF rargs.stop > rargs.start THEN rargs.stop - rargs.start
             ELSE rargs.start - rargs.stop
        a == IF rargs.step > 0 THEN rargs.step ELSE -rargs.step
    IN  (d + a - 1) \div a
\* C19: for every start, stop and step # 0 pointing from start toward stop,
\* in either direction and whether or not stop - start is a multiple of
\* step, size() is ceil((stop - start) / step).
C19_RangeSize ==
    (rpc # "idle" /\ PointsToStop) => rng.size_ = CeilTerms

\* --------------------------------------------------------- claims: Zip
\* The length of the shortest zipped container.
MinLength ==
    CHOOSE n \in {Len(zconts[i]) : i \in 1 .. Len(zconts)} :
        \A i \in 1 .. Len(zconts) : n <= Len(zconts[i])
\* The tuple of the j-th elements.
NthTuple_Zip(j) == [i \in 1 .. Len(zconts) |-> zconts[i][j]]
\* How many increments the loop has made.
ZipTicks == IF zpc = "body" THEN Len(zyield) - 1 ELSE Len(zyield)

\* C20: for containers of any lengths, size() of their Zip is the length of
\* the shortest; every increment moves every component iterator one step, so
\* that the i-th tuple seen is the tuple of the i-th elements; as soon as
\* one component iterator is at its container's end the zip iterator is
\* end(); and the loop sees exactly as many tuples as the shortest container
\* has elements.
C20_ZipShortest ==
    zpc # "idle" =>
        /\ zip.size_ = MinLength
        /\ Len(zyield) <= MinLength
        /\ \A j \in 1 .. Len(zyield) : zyield[j] = NthTuple_Zip(j)
        /\ IF \E i \in 1 .. Len(zitr) : zitr[i] = zip.end_[i]
           THEN /\ zip_are_equal(zitr, zip.end_)
                /\ ZipTicks = MinLength
           ELSE /\ ZipTicks < MinLength
                /\ \A i \in 1 .. Len(zitr) : zitr[i] = ZipTicks + 1
\* Zip of containers of 3, 1 and 2 elements: the loop is over after one tuple.
C20_Witness ==
    /\ zconts = <<ZipContainer(1, 3), ZipContainer(2, 1), ZipContainer(3, 2)>>
    /\ zpc = "test"
    /\ zip_are_equal(zitr, zip.end_)
    /\ zyield = <<<<11, 21, 31>>>>
    /\ zip.size_ = 1

\* ------------------------------------------- claims: CartesianProduct
\* The product of the lengths of the containers from position i on.
RECURSIVE LengthProduct(_)
LengthProduct(i) ==
    IF i > Len(pconts) THEN 1 ELSE Len(pconts[i]) * LengthProduct(i + 1)
\* The positions of the r-th tuple (r from 0) in lexicographic order, the
\* leftmost container varying slowest.
OdometerPositions(r) ==
    [i \in 1 .. Len(pconts) |->
         ((r \div LengthProduct(i + 1)) % Len(pconts[i])) + 1]
AllNonEmpty == \A i \in 1 .. Len(pconts) : Len(pconts[i]) > 0
\* How many increments the loop has made.
CartTicks == IF ppc = "body" THEN Len(pyield) - 1 ELSE Len(pyield)

\* C21: size() of a CartesianProduct is the product of the sizes of its
\* containers (a product that fits size_t), 0 if one is empty; for non-empty
\* containers the iterator,
\* r increments after begin(), is at the r-th tuple in lexicographic order
\* with the leftmost container varying slowest, every tuple is seen once in
\* that order, and the iterator is end(), the tuple of all the containers'
\* ends, after exactly size() increments and not before.
C21_CartesianOdometer ==
    (ppc # "idle" /\ LengthProduct(1) < Modulus) =>
        /\ prod.size_ = LengthProduct(1)
        /\ ~AllNonEmpty =>
               (prod.size_ = 0 /\ zip_are_equal(prod.start_, prod.end_))
        /\ AllNonEmpty =>
               /\ CartTicks <= LengthProduct(1)
               /\ zip_are_equal(pitr, prod.end_) <=> CartTicks = LengthProduct(1)
               /\ CartTicks < LengthProduct(1) => pitr = OdometerPositions(CartTicks)
               /\ \A j \in 1 .. Len(pyield) :
                      pyield[j] = zip_dereference(pconts, OdometerPositions(j - 1))
               /\ \A j, k \in 1 .. Len(pyield) : j # k => pyield[j] # pyield[k]
\* The loop over the product of containers of 3, 1 and 2 elements is over
\* after 6 tuples, the last being the last elements.
C21_Witness ==
    /\ pconts = <<ZipContainer(1, 3), ZipContainer(2, 1), ZipContainer(3, 2)>>
    /\ ppc = "test"
    /\ zip_are_equal(pitr, prod.end_)
    /\ Len(pyield) = 6
    /\ pyield[2] = <<11, 21, 32>>
    /\ pyield[6] = <<13, 21, 32>>

\* ----------------------------------------------- claims: UnsignedSubtract
\* C22: for every pair of size_t values whose difference has a magnitude
\* that long can hold, UnsignedSubtract(lhs, rhs) is lhs - rhs: positive
\* when lhs > rhs, zero when they are equal, negative when rhs > lhs; and
\* the unsigned subtraction it evaluates never has a minuend below its
\* subtrahend.
C22_UnsignedSubtract ==
    LET lhs == fn_call.lhs
        rhs == fn_call.rhs
        magnitude == IF lhs > rhs THEN lhs - rhs ELSE rhs - lhs
    IN  (Returned("UnsignedSubtract") /\ magnitude < -MinSigned) =>
            /\ fn_ret.val = lhs - rhs
            /\ lhs > rhs => fn_ret.val > 0
            /\ lhs = rhs => fn_ret.val = 0
            /\ lhs < rhs => fn_ret.val < 0
            /\ UnsignedOperands(lhs, rhs)[1] >= UnsignedOperands(lhs, rhs)[2]
\* UnsignedSubtract(2, 3) returned -1.
C22_Witness ==
    /\ Returned("UnsignedSubtract")
    /\ fn_call.lhs = 2 /\ fn_call.rhs = 3
    /\ fn_ret.val = -1

\* ------------------------------------------------------ claims: MathSet
\* The elements of a sequence, as a set.
ToSet(s) == {s[i] : i \in 1 .. Len(s)}
\* C23: for all sets x and y, x.intersection(y) and x.difference(y) are
\* disjoint, their union is x and their sizes add up to x.size(); the
\* value-returning forms leave x and y as they were; intersection_assign and
\* difference_assign leave in the receiver what the value-returning form
\* returns, and leave the other set alone.
C23_MathSetPartition ==
    mlast.op # "" =>
        LET x == mlast.before[mlast.lhs]
            y == mlast.before[mlast.rhs]
            inter == IF mlast.op \in {"intersection", "intersection_assign"}
                     THEN mlast.result ELSE intersection(x, y)
            diff == IF mlast.op \in {"difference", "difference_assign"}
                    THEN mlast.result ELSE difference(x, y)
        IN  /\ Len(inter) + Len(diff) = Len(x)
            /\ ToSet(inter) \cap ToSet(diff) = {}
            /\ ToSet(inter) \cup ToSet(diff) = ToSet(x)
            /\ ToSet(inter) = ToSet(x) \cap ToSet(y)
            /\ ToSet(diff) = ToSet(x) \ ToSet(y)
            /\ Cardinality(ToSet(mlast.result)) = Len(mlast.result)
            /\ mlast.op \in {"intersection", "difference"} => mset = mlast.before
            /\ mlast.op \in {"intersection_assign", "difference_assign"} =>
                   /\ mset[mlast.lhs] = mlast.result
                   /\ \A n \in SetNames \ {mlast.lhs} : mset[n] = mlast.before[n]
\* {1, 2, 3}.difference({2}) returned {1, 3} and left both sets alone.
C23_Witness ==
    /\ mlast.op = "difference" /\ mlast.lhs = "x" /\ mlast.rhs = "y"
    /\ mlast.before = [x |-> <<1, 2, 3>>, y |-> <<2>>]
    /\ mlast.result = <<1, 3>>
    /\ mset = mlast.before

\* -------------------------------------------------------- claims: Timer
\* C24: after any calls of record, time_it and reset, right after
\* record(desc) returns, at(desc) is the time from the most recent start of
\* the timer (construction, reset, or the previous record or time_it) to
\* that call of record, also when desc, or a description that differs from
\* it only in letter case, was recorded before; and every record and
\* time_it starts the timer again.
C24_TimerKeepsEveryTiming ==
    /\ tlast.op = "record" =>
           at(m_times_, tlast.desc) = tlast.t2 - tlast.started
    /\ tlast.op \in {"record", "time_it"} => m_started_ = tlast.t2

\* ------------------------------------- claims: PermutationItr, termination
\* C25: advance(n) on a PermutationItr over a non-empty sequence returns for
\* every signed n, also when the target rank offset + dx + n is at or past
\* n_permutations or negative, the rank being taken modulo n_permutations;
\* so begin().advance(n_permutations) returns an iterator equal to end().
\* Stated on finite runs: no call of advance is left running, and the call
\* on begin() with n = n_permutations has produced end().
C25_AdvanceTerminates ==
    (last.op = "advance" /\ Len(last.before.orig_set_) > 0) =>
        /\ pc # "hung"
        /\ (/\ last.before = Permutations(last.before.orig_set_).start_
            /\ last.n = n_permutations(last.before.orig_set_))
           => are_equal(itr["a"], Permutations(last.before.orig_set_).end_)

\* ------------------------------------------ claims: Range, termination
\* v lies before stop on the way from start.
BeforeStop(v) == (rargs.stop - v) * rargs.step > 0
\* How many increments the loop over the Range has made.
RangeTicks == IF rpc = "body" THEN Len(ryield) - 1 ELSE Len(ryield)
\* C26: for every start, stop and step # 0 pointing from start toward stop,
\* also when stop - start is not a multiple of step, incrementing begin()
\* reaches an iterator equal to end() after exactly size() increments and
\* no value at or beyond stop is dereferenced.  Stated on finite runs:
\* every value the loop has seen lies before stop, and when the loop is
\* over it has made size() increments.
C26_RangeIterationEnds ==
    (rpc # "idle" /\ PointsToStop) =>
        /\ \A i \in 1 .. Len(ryield) : BeforeStop(ryield[i])
        /\ LoopOver => RangeTicks = rng.size_

\* ------------------------------------------ claims: the digits of a rank
\* Every digit of fns is below the number of candidates that remain and is
\* the 0-based index of the leftmost candidate equal to the element the
\* permutation has at that place; the chosen candidate is then removed.
RECURSIVE LeftmostDigits(_, _, _)
LeftmostDigits(fns, perm, remaining) ==
    IF fns = <<>> THEN perm = <<>>
    ELSE /\ perm # <<>>
         /\ Head(fns) >= 0
         /\ Head(fns) < Len(remaining)
         /\ remaining[Head(fns) + 1] = Head(perm)
         /\ \A j \in 1 .. Head(fns) : remaining[j] # Head(perm)
         /\ LeftmostDigits(Tail(fns), Tail(perm), Remove(remaining, Head(fns) + 1))
\* C27: for every ascending sequence s, repeats allowed, and every r in
\* [0, n_permutations(s)), decimal_to_fns(r, s) returns the digits that
\* permutation_to_fns gives for decimal_to_permutation(r, s), and each digit
\* is the index of the leftmost occurrence of the chosen element among the
\* remaining candidates, hence below their number.
C27_DigitsAgree ==
    (fpc = "d2p" /\ IsSorted(seq_in)) =>
        /\ decimal_to_fns(rank_in, seq_in).returns
        /\ decimal_to_fns(rank_in, seq_in).fns = permutation_to_fns(perm_out, seq_in)
        /\ LeftmostDigits(decimal_to_fns(rank_in, seq_in).fns, perm_out, seq_in)
\* decimal_to_permutation(2, {1,2,2}) has returned {2,2,1}, the digits of
\* rank 2 being 1, 1, 0.
C27_Witness ==
    /\ fpc = "d2p"
    /\ seq_in = <<1, 2, 2>>
    /\ rank_in = 2
    /\ perm_out = <<2, 2, 1>>
    /\ decimal_to_fns(rank_in, seq_in).fns = <<1, 1, 0>>

\* ------------------------------- claims: PermutationItr, inverse steps
\* C28: from every state the iterator can reach, an increment followed by a
\* decrement, and a decrement followed by an increment, give back the same
\* iterator (the same arrangement and the same offset), also across the
\* wrap between the greatest and the least arrangement and when the
\* unsigned offset steps down from 0.
C28_StepsAreInverse ==
    /\ decrement(increment(itr["a"])) = itr["a"]
    /\ increment(decrement(itr["a"])) = itr["a"]
    /\ are_equal(decrement(increment(itr["a"])), itr["a"])
    /\ are_equal(increment(decrement(itr["a"])), itr["a"])
\* begin() of the permutations of {1,2,2} was decremented: the offset
\* stepped down from 0, the arrangement wrapped to the greatest one, and an
\* increment leads back to begin().
C28_Witness ==
    /\ last.op = "decrement"
    /\ itr["a"].orig_set_ = <<1, 2, 2>>
    /\ itr["a"].set_ = <<2, 2, 1>>
    /\ itr["a"].offset_ = Modulus - 1
    /\ increment(itr["a"]) = Permutations(<<1, 2, 2>>).start_

\* ------------------------------- claims: PermutationItr, what a step keeps
\* C29: every increment, decrement and returning advance leaves the stored
\* original sequence, its sorted copy and the rank dx as they were at
\* construction, and leaves in the iterator an arrangement of the original
\* sequence: the same length and the same number of every element.  Only
\* the arrangement and the offset change.
C29_StateInvariant ==
    [][/\ itr'["a"].orig_set_ = itr["a"].orig_set_
       /\ itr'["a"].sorted_orig_ = itr["a"].sorted_orig_
       /\ itr'["a"].dx_ = itr["a"].dx_
       /\ itr'["a"].sorted_orig_ = Sort(itr'["a"].orig_set_)
       /\ Len(itr'["a"].set_) = Len(itr'["a"].orig_set_)
       /\ \A e \in Elems :
              Count(itr'["a"].set_, e) = Count(itr'["a"].orig_set_, e)]_vars
\* begin() of the permutations of {1,2,2} was advanced by 2 and shows
\* {2,2,1}; the stored sequences and dx are those of the construction.
C29_Witness ==
    /\ last.op = "advance"
    /\ last.n = 2
    /\ pc = "run"
    /\ last.before = Permutations(<<1, 2, 2>>).start_
    /\ itr["a"] = [last.before EXCEPT !.set_ = <<2, 2, 1>>, !.offset_ = 2]

\* ------------------------------- claims: the random-access operators
\* C30: for the iterators built on RandomAccessIteratorBase and every n,
\* a < b holds exactly when (b - a) > 0, and ((a + n) - a) = n, so that
\* last - first of a container is its element count and is not negative.
C30_OperatorsConsistent ==
    /\ olast.op = "<" => (olast.lt <=> olast.diff > 0)
    /\ olast.op = "+-" => olast.diff = olast.n
    /\ (olast.op = "last - first" /\ ocont.start_.increment_ = 1) =>
           /\ olast.diff >= 0
           /\ olast.diff = ocont.size_

=============================================================================
